---- MODULE Spec2Model ----
(***************************************************************************)
(* A model of the bf-i18n core: the I18n facade, the Translator, the       *)
(* Pluralizer and the Interpolator.                                        *)
(*                                                                         *)
(* Strings are sequences of one-character strings, so that split, join,    *)
(* trim, template literals and the placeholder pattern are computed as the *)
(* code computes them.  Objects live in a heap (object id -> ordered       *)
(* entries), because addTranslations stores references.                    *)
(***************************************************************************)
EXTENDS Integers, Sequences, FiniteSets, TLC

VARIABLES
    options,          \* I18n.options: the resolved configuration (immutable)
    currentLocale,    \* I18n.currentLocale
    trLocale,         \* Translator.locale
    plLocale,         \* locale of the Intl.PluralRules held by Translator.pluralizer
    heap,             \* object id -> [arr, ents]: every object the program can reach
    changeListeners,  \* I18n.changeListeners: a Set, in insertion order
    unsubs,           \* callbacks for which onChange has returned an unsubscribe closure
    missingKeys,      \* I18n.missingKeys: a Map, in insertion order
    clock,            \* the value new Date() returns next
    el,               \* the element carrying v-t: its binding, content and subscription
    last              \* the last operation: its arguments and what it returned or threw

vars == <<options, currentLocale, trLocale, plLocale, heap, changeListeners,
          unsubs, missingKeys, clock, el, last>>

-----------------------------------------------------------------------------
(* Bounds of the model.                                                    *)

\* each t call advances the clock; t is called while clock < MaxClock
MaxClock == 3

\* the same, in the specification of the facade's life
MaxFacadeCalls == 1

\* counts range over -1 .. MaxCount
MaxCount == 3

-----------------------------------------------------------------------------
(* Strings.                                                                *)

Lower == {"a","b","c","d","e","f","g","h","i","j","k","l","m",
          "n","o","p","q","r","s","t","u","v","w","x","y","z"}
Upper == {"A","B","C","D","E","F","G","H","I","J","K","L","M",
          "N","O","P","Q","R","S","T","U","V","W","X","Y","Z"}
Digit == {"0","1","2","3","4","5","6","7","8","9"}

\* String.prototype.trim removes white space and line terminators
WhiteSpace == {" ", "\t", "\n"}

RECURSIVE Concat(_)
\* the concatenation of a sequence of strings
Concat(ss) == IF ss = <<>> THEN <<>> ELSE Head(ss) \o Concat(Tail(ss))

RECURSIVE Join(_, _)
\* Array.prototype.join(sep)
Join(parts, sep) ==
    IF parts = <<>> THEN <<>>
    ELSE IF Len(parts) = 1 THEN parts[1]
    ELSE parts[1] \o sep \o Join(Tail(parts), sep)

\* String.prototype.includes(c) for a one-character c
Includes(s, c) == \E i \in 1..Len(s) : s[i] = c

\* String.prototype.indexOf(c), 1-based; 0 when absent
IndexOf(s, c) ==
    IF Includes(s, c) THEN CHOOSE i \in 1..Len(s) :
                               s[i] = c /\ \A j \in 1..(i-1) : s[j] # c
    ELSE 0

RECURSIVE Split(_, _)
\* String.prototype.split(c) for a one-character separator c
Split(s, c) ==
    IF ~Includes(s, c) THEN <<s>>
    ELSE LET i == IndexOf(s, c)
         IN  <<SubSeq(s, 1, i-1)>> \o Split(SubSeq(s, i+1, Len(s)), c)

RECURSIVE TrimStart(_)
TrimStart(s) ==
    IF s # <<>> /\ Head(s) \in WhiteSpace THEN TrimStart(Tail(s)) ELSE s

RECURSIVE TrimEnd(_)
TrimEnd(s) ==
    IF s # <<>> /\ s[Len(s)] \in WhiteSpace
    THEN TrimEnd(SubSeq(s, 1, Len(s)-1)) ELSE s

\* a trim that leaves trailing white space
Trim_StartOnly(s) == TrimStart(s)

\* String.prototype.trim
Trim(s) == TrimEnd(TrimStart(s))

\* s starts with p at position i (1-based)
StartsWithAt(s, p, i) ==
    /\ i + Len(p) - 1 <= Len(s)
    /\ \A j \in 1..Len(p) : s[i + j - 1] = p[j]

DigitChar(d) ==
    CASE d = 0 -> "0" [] d = 1 -> "1" [] d = 2 -> "2" [] d = 3 -> "3"
      [] d = 4 -> "4" [] d = 5 -> "5" [] d = 6 -> "6" [] d = 7 -> "7"
      [] d = 8 -> "8" [] d = 9 -> "9"

RECURSIVE NatToStr(_)
NatToStr(n) == IF n < 10 THEN <<DigitChar(n)>>
               ELSE NatToStr(n \div 10) \o <<DigitChar(n % 10)>>

\* String(n) for an integer n
IntToStr(n) == IF n < 0 THEN <<"-">> \o NatToStr(-n) ELSE NatToStr(n)

-----------------------------------------------------------------------------
(* Values and objects.                                                     *)

\* A TranslationValue, or undefined.  t is the JavaScript type; s the text of
\* a string; n the number (or 1/0 for true/false); id the heap id of an
\* object or an array.
Undef     == [t |-> "undef", s |-> <<>>, n |-> 0, id |-> 0]
NullV     == [t |-> "null",  s |-> <<>>, n |-> 0, id |-> 0]
StrV(x)   == [t |-> "str",   s |-> x,    n |-> 0, id |-> 0]
NumV(x)   == [t |-> "num",   s |-> <<>>, n |-> x, id |-> 0]
BoolV(b)  == [t |-> "bool",  s |-> <<>>, n |-> IF b THEN 1 ELSE 0, id |-> 0]
ObjV(i)   == [t |-> "obj",   s |-> <<>>, n |-> 0, id |-> i]
ArrV(i)   == [t |-> "arr",   s |-> <<>>, n |-> 0, id |-> i]

\* an entry of an object (k: property name) or of an array (k unused)
Ent(k, v) == [k |-> k, v |-> v]

\* `k in o` for the entries of an object
HasKey(ents, k) == \E i \in 1..Len(ents) : ents[i].k = k

\* o[k]: undefined when the property is absent
GetKey(ents, k) ==
    IF HasKey(ents, k)
    THEN ents[CHOOSE i \in 1..Len(ents) : ents[i].k = k].v
    ELSE Undef

\* o[k] = v: an existing property keeps its place, a new one is appended
SetKey(ents, k, v) ==
    IF HasKey(ents, k)
    THEN [i \in 1..Len(ents) |-> IF ents[i].k = k THEN Ent(k, v) ELSE ents[i]]
    ELSE Append(ents, Ent(k, v))

\* Object.keys(o)
Keys(ents) == [i \in 1..Len(ents) |-> ents[i].k]

\* the heap id of options.translations (the locale -> namespace record)
RootId == 0

\* this.translations[loc]: the locale's namespace object, or undefined
LocaleTranslations(h, loc) == GetKey(h[RootId].ents, loc)

-----------------------------------------------------------------------------
(* Translator: fallback chain and nested lookup.                           *)

\* Array.prototype.includes
SeqIncludes(seq, x) == \E i \in 1..Len(seq) : seq[i] = x

RECURSIVE PushMissing(_, _)
\* for (const fallback of fallbacks) if (!chain.includes(fallback)) chain.push(fallback)
PushMissing(chain, fallbacks) ==
    IF fallbacks = <<>> THEN chain
    ELSE PushMissing(IF SeqIncludes(chain, Head(fallbacks)) THEN chain
                     ELSE Append(chain, Head(fallbacks)),
                     Tail(fallbacks))

\* the mutant of buildFallbackChain that leaves the language prefix out
buildFallbackChain_NoPrefix(fallbackLocales, locale) ==
    PushMissing(<<locale>>, fallbackLocales)

\* Translator.buildFallbackChain, over the fallbackLocales given to the constructor
buildFallbackChain(fallbackLocales, locale) ==
    LET langOnly == Split(locale, "-")[1]
        chain1   == IF Includes(locale, "-") /\ langOnly # locale
                    THEN <<locale, langOnly>> ELSE <<locale>>
    IN  PushMissing(chain1, fallbackLocales)

RECURSIVE getNestedValue(_, _, _)
\* Translator.getNestedValue: walk keys from the value current
getNestedValue(h, current, keys) ==
    IF keys = <<>> THEN current
    ELSE IF current.t # "obj" THEN Undef
    ELSE LET next == GetKey(h[current.id].ents, Head(keys))
         IN  IF next.t = "undef" THEN Undef
             ELSE getNestedValue(h, next, Tail(keys))

\* the lookup of one locale of the chain, shared by exists and translateForLocale
LookupIn(h, loc, key) ==
    LET localeTranslations == LocaleTranslations(h, loc)
    IN  IF localeTranslations.t = "undef" THEN Undef
        ELSE getNestedValue(h, localeTranslations, Split(key, "."))

\* the mutant of ExistsLoop that takes a null value for a missing one
RECURSIVE ExistsLoop_NullMissing(_, _, _)
ExistsLoop_NullMissing(h, chain, key) ==
    IF chain = <<>> THEN FALSE
    ELSE IF LookupIn(h, Head(chain), key).t \notin {"undef", "null"} THEN TRUE
    ELSE ExistsLoop_NullMissing(h, Tail(chain), key)

RECURSIVE ExistsLoop(_, _, _)
ExistsLoop(h, chain, key) ==
    IF chain = <<>> THEN FALSE
    ELSE IF LookupIn(h, Head(chain), key).t # "undef" THEN TRUE
    ELSE ExistsLoop(h, Tail(chain), key)

\* Translator.exists(key, locale), locale an optional argument (<<>> or <<l>>)
TranslatorExists(h, fallbackLocales, ownLocale, key, locale) ==
    LET targetLocale == IF locale = <<>> THEN ownLocale ELSE locale[1]
    IN  ExistsLoop(h, buildFallbackChain(fallbackLocales, targetLocale), key)

-----------------------------------------------------------------------------
(* Interpolator.                                                           *)

\* [a-zA-Z_] and [a-zA-Z0-9_] of the placeholder pattern
IdentStart == Lower \cup Upper \cup {"_"}
IdentChar  == IdentStart \cup Digit

\* The pattern of buildPattern tried at position i of text: the length of the
\* variable name it captures, 0 when it does not match there.  The name is
\* matched greedily and gives characters back until the suffix follows.
MaxOf(ns) == CHOOSE n \in ns : \A m \in ns : m <= n
MaxOrZero(ns) == IF ns = {} THEN 0 ELSE MaxOf(ns)
MatchNameLen(text, prefix, suffix, i) ==
    IF ~StartsWithAt(text, prefix, i) THEN 0
    ELSE MaxOrZero({ n \in 1..(Len(text) - (i + Len(prefix)) + 1) :
                       /\ text[i + Len(prefix)] \in IdentStart
                       /\ \A j \in 1..(n-1) : text[i + Len(prefix) + j] \in IdentChar
                       /\ StartsWithAt(text, suffix, i + Len(prefix) + n) })

\* `varName in values`, values a sequence of [k, nullish, s]
HasVar(values, name) == \E i \in 1..Len(values) : values[i].k = name

\* value == null ? '' : String(value), for the last property of that name
RenderVar(values, name) ==
    LET i == CHOOSE i \in 1..Len(values) :
                 values[i].k = name /\ \A j \in (i+1)..Len(values) : values[j].k # name
    IN  IF values[i].nullish THEN <<>> ELSE values[i].s

\* the replacer of interpolate for the match `whole` that captured varName
Replacement(values, varName, whole) ==
    IF HasVar(values, varName) THEN RenderVar(values, varName) ELSE whole

RECURSIVE InterpolateFrom(_, _, _, _, _)
\* text.replace(pattern, replacer) from position i; n is the length of the
\* name the pattern captures at i, 0 when it does not match there
InterpolateAt(text, prefix, suffix, values, i, n) ==
    IF n = 0
    THEN <<text[i]>> \o InterpolateFrom(text, prefix, suffix, values, i + 1)
    ELSE Replacement(values,
                     SubSeq(text, i + Len(prefix), i + Len(prefix) + n - 1),
                     SubSeq(text, i, i + Len(prefix) + n + Len(suffix) - 1))
         \o InterpolateFrom(text, prefix, suffix, values,
                            i + Len(prefix) + n + Len(suffix))
InterpolateFrom(text, prefix, suffix, values, i) ==
    IF i > Len(text) THEN <<>>
    ELSE InterpolateAt(text, prefix, suffix, values, i,
                       MatchNameLen(text, prefix, suffix, i))

\* Interpolator.interpolate(text, values) for an Interpolator built with prefix, suffix
interpolate(text, prefix, suffix, values) ==
    InterpolateFrom(text, prefix, suffix, values, 1)

RECURSIVE ExtractFrom(_, _, _, _, _)
\* the loop of extractVariables: pattern.exec from position i, n the length
\* of the name captured there (0: no match at i)
ExtractAt(text, prefix, suffix, i, variables, n) ==
    IF n = 0 THEN ExtractFrom(text, prefix, suffix, i + 1, variables)
    ELSE ExtractFrom(text, prefix, suffix, i + Len(prefix) + n + Len(suffix),
                     PushMissing(variables,
                                 <<SubSeq(text, i + Len(prefix), i + Len(prefix) + n - 1)>>))
ExtractFrom(text, prefix, suffix, i, variables) ==
    IF i > Len(text) THEN variables
    ELSE ExtractAt(text, prefix, suffix, i, variables,
                   MatchNameLen(text, prefix, suffix, i))

\* Interpolator.extractVariables(text) of an Interpolator built with prefix, suffix
extractVariables(text, prefix, suffix) == ExtractFrom(text, prefix, suffix, 1, <<>>)

RECURSIVE ReplaceAllFrom(_, _, _, _)
\* s.split(pat).join(rep) from position i, for a non-empty pat
ReplaceAllFrom(s, pat, rep, i) ==
    IF i > Len(s) THEN <<>>
    ELSE IF StartsWithAt(s, pat, i)
    THEN rep \o ReplaceAllFrom(s, pat, rep, i + Len(pat))
    ELSE <<s[i]>> \o ReplaceAllFrom(s, pat, rep, i + 1)

ReplaceAll(s, pat, rep) == ReplaceAllFrom(s, pat, rep, 1)

\* InterpolationOptions
InterpolationOptions(prefix, suffix) == [prefix |-> prefix, suffix |-> suffix]
RailsInterpolationDefaults   == InterpolationOptions(<<"%","{">>, <<"}">>)
LaravelInterpolationDefaults == InterpolationOptions(<<":">>, <<>>)

RECURSIVE ConvertLoop(_, _, _, _)
\* the loop of Interpolator.convert over the extracted variables
ConvertLoop(result, variables, fromOptions, toOptions) ==
    IF variables = <<>> THEN result
    ELSE ConvertLoop(ReplaceAll(result,
                                fromOptions.prefix \o Head(variables) \o fromOptions.suffix,
                                toOptions.prefix \o Head(variables) \o toOptions.suffix),
                     Tail(variables), fromOptions, toOptions)

\* Interpolator.convert(text, fromOptions, toOptions)
convert(text, fromOptions, toOptions) ==
    ConvertLoop(text, extractVariables(text, fromOptions.prefix, fromOptions.suffix),
                fromOptions, toOptions)

-----------------------------------------------------------------------------
(* Pluralizer.                                                             *)

Abs(n) == IF n < 0 THEN -n ELSE n

\* the language subtag that selects the plural rules of a locale
LangOf(locale) == Split(locale, "-")[1]

\* Pluralizer.getPluralCategory: Intl.PluralRules(locale).select(count), the
\* cardinal rules of CLDR for integer counts (a locale without rules of its
\* own resolves to the runtime's default locale, taken to be English)
getPluralCategory(locale, count) ==
    LET n    == Abs(count)
        lang == LangOf(locale)
    IN  CASE lang = <<"j","a">> -> <<"o","t","h","e","r">>
          [] lang = <<"f","r">> -> IF n \in {0, 1} THEN <<"o","n","e">>
                            ELSE IF n % 1000000 = 0 THEN <<"m","a","n","y">> ELSE <<"o","t","h","e","r">>
          [] lang = <<"a","r">> -> IF n = 0 THEN <<"z","e","r","o">>
                            ELSE IF n = 1 THEN <<"o","n","e">>
                            ELSE IF n = 2 THEN <<"t","w","o">>
                            ELSE IF n % 100 \in 3..10 THEN <<"f","e","w">>
                            ELSE IF n % 100 \in 11..99 THEN <<"m","a","n","y">>
                            ELSE <<"o","t","h","e","r">>
          [] OTHER       -> IF n = 1 THEN <<"o","n","e">> ELSE <<"o","t","h","e","r">>

\* the mutant of resolveKeyBased without the zero form's priority
resolveKeyBased_NoZeroFirst(locale, translations, count) ==
    IF HasKey(translations, getPluralCategory(locale, count))
    THEN GetKey(translations, getPluralCategory(locale, count))
    ELSE IF HasKey(translations, <<"o","t","h","e","r">>) THEN GetKey(translations, <<"o","t","h","e","r">>)
    ELSE Undef

\* Pluralizer.resolveKeyBased(translations, count) of a Pluralizer bound to locale
resolveKeyBased(locale, translations, count) ==
    IF count = 0 /\ HasKey(translations, <<"z","e","r","o">>)
    THEN GetKey(translations, <<"z","e","r","o">>)
    ELSE LET category == getPluralCategory(locale, count)
         IN  IF HasKey(translations, category) THEN GetKey(translations, category)
             ELSE IF HasKey(translations, <<"o","t","h","e","r">>) THEN GetKey(translations, <<"o","t","h","e","r">>)
             ELSE Undef

\* Pluralizer.splitByPipe from position i: current is the part being read,
\* inBracket the flag set by '[' or '{' and cleared by ']' or '}'
RECURSIVE SplitByPipeFrom(_, _, _, _)
SplitByPipeFrom(text, i, current, inBracket) ==
    IF i > Len(text) THEN (IF current # <<>> THEN <<current>> ELSE <<>>)
    ELSE LET char == text[i]
             flag == IF char \in {"[", "{"} THEN TRUE
                     ELSE IF char \in {"]", "}"} THEN FALSE
                     ELSE inBracket
         IN  IF char = "|" /\ ~flag
             THEN <<current>> \o SplitByPipeFrom(text, i + 1, <<>>, flag)
             ELSE SplitByPipeFrom(text, i + 1, Append(current, char), flag)

\* Pluralizer.splitByPipe
splitByPipe(text) == SplitByPipeFrom(text, 1, <<>>, FALSE)

\* the length of the run of digits of s that starts at position i
DigitRun(s, i) ==
    MaxOf({ n \in 0..(Len(s) - i + 1) : \A j \in 0..(n-1) : s[i + j] \in Digit })

DigitValue(c) == CHOOSE d \in 0..9 : DigitChar(d) = c

RECURSIVE StrToNat(_)
\* parseInt(s, 10) for a string of digits
StrToNat(s) == IF s = <<>> THEN 0
               ELSE 10 * StrToNat(SubSeq(s, 1, Len(s) - 1)) + DigitValue(s[Len(s)])

\* what \s*(.*)$ captures from position i of part: <<text>>, or <<>> when the
\* rest holds a line terminator, which . does not match
RestOfRule(part, i) ==
    LET rest == TrimStart(SubSeq(part, i, Len(part)))
    IN  IF Includes(rest, "\n") THEN <<>> ELSE <<rest>>

\* a LaravelPluralRule: kind says which of exact and rangeStart/rangeEnd are
\* defined; inf says that rangeEnd is Infinity
ExactRule(n, text)         == [kind |-> "exact", exact |-> n, rangeStart |-> 0,
                               rangeEnd |-> 0, inf |-> FALSE, text |-> text]
RangeRule(a, b, inf, text) == [kind |-> "range", exact |-> 0, rangeStart |-> a,
                               rangeEnd |-> b, inf |-> inf, text |-> text]
TextRule(text)             == [kind |-> "text", exact |-> 0, rangeStart |-> 0,
                               rangeEnd |-> 0, inf |-> FALSE, text |-> text]

\* part.match(/^\{(\d+)\}\s*(.*)$/): <<rule>> or <<>>
ExactMatchWith(part, d) ==
    IF /\ d >= 1
       /\ Len(part) >= 2 + d /\ part[2 + d] = "}"
       /\ RestOfRule(part, 3 + d) # <<>>
    THEN <<ExactRule(StrToNat(SubSeq(part, 2, 1 + d)), RestOfRule(part, 3 + d)[1])>>
    ELSE <<>>
ExactMatch(part) ==
    IF Len(part) >= 1 /\ part[1] = "{" THEN ExactMatchWith(part, DigitRun(part, 2))
    ELSE <<>>

\* part.match(/^\[(\d+),(\d+|\*)\]\s*(.*)$/): <<rule>> or <<>>
\* d1 digits from position 2, then ',', then at p2 = 3 + d1 either '*' (star)
\* or d2 digits, then ']'
RangeMatchEnd(part, d1, star, d2) ==
    IF /\ d2 >= 1
       /\ Len(part) >= 3 + d1 + d2 /\ part[3 + d1 + d2] = "]"
       /\ RestOfRule(part, 3 + d1 + d2 + 1) # <<>>
    THEN <<RangeRule(StrToNat(SubSeq(part, 2, 1 + d1)),
                     IF star THEN 0 ELSE StrToNat(SubSeq(part, 3 + d1, 3 + d1 + d2 - 1)),
                     star,
                     RestOfRule(part, 3 + d1 + d2 + 1)[1])>>
    ELSE <<>>
RangeMatchFrom(part, d1) ==
    IF d1 >= 1 /\ Len(part) >= 2 + d1 /\ part[2 + d1] = ","
    THEN (IF Len(part) >= 3 + d1 /\ part[3 + d1] = "*"
          THEN RangeMatchEnd(part, d1, TRUE, 1)
          ELSE RangeMatchEnd(part, d1, FALSE, DigitRun(part, 3 + d1)))
    ELSE <<>>
RangeMatch(part) ==
    IF Len(part) >= 1 /\ part[1] = "[" THEN RangeMatchFrom(part, DigitRun(part, 2))
    ELSE <<>>

\* Pluralizer.parseRule(part, index, totalParts), index counted from 0
ParsedRule(part, index, totalParts, exactMatch, rangeMatch) ==
    IF exactMatch # <<>> THEN exactMatch[1]
    ELSE IF rangeMatch # <<>> THEN rangeMatch[1]
    ELSE IF totalParts = 2
         THEN (IF index = 0 THEN ExactRule(1, part) ELSE RangeRule(0, 0, TRUE, part))
    ELSE TextRule(part)
parseRule(part, index, totalParts) ==
    ParsedRule(part, index, totalParts, ExactMatch(part), RangeMatch(part))

\* Pluralizer.parsePipeSeparated
ParseParts(parts) ==
    [i \in 1..Len(parts) |-> parseRule(Trim(parts[i]), i - 1, Len(parts))]
parsePipeSeparated(text) == ParseParts(splitByPipe(text))

\* the mutant of RuleMatches that forgets the upper end of a range
RuleMatches_NoUpperEnd(rule, count) ==
    \/ rule.kind = "exact" /\ rule.exact = count
    \/ rule.kind = "range" /\ count >= rule.rangeStart

\* the test resolvePipeBased makes of one rule
RuleMatches(rule, count) ==
    \/ rule.kind = "exact" /\ rule.exact = count
    \/ /\ rule.kind = "range"
       /\ count >= rule.rangeStart
       /\ (rule.inf \/ count <= rule.rangeEnd)

\* Pluralizer.resolvePipeBased
MinOf(ns) == CHOOSE i \in ns : \A j \in ns : i <= j
\* the loop of resolvePipeBased over rules, matches the indexes that match
PickRule(rules, matches, text) ==
    IF matches # {} THEN rules[MinOf(matches)].text
    ELSE IF Len(rules) > 0 THEN rules[Len(rules)].text ELSE text
MatchingRules(rules, count) == { i \in 1..Len(rules) : RuleMatches(rules[i], count) }
ResolveRules(rules, text, count) == PickRule(rules, MatchingRules(rules, count), text)
resolvePipeBased(text, count) == ResolveRules(parsePipeSeparated(text), text, count)

\* `{0} ${translations['zero']}` and its like: tag, a space, the form's text
PipePart(tag, translations, category) ==
    IF HasKey(translations, category)
    THEN <<tag \o <<" ">> \o GetKey(translations, category).s>>
    ELSE <<>>

\* Pluralizer.keyToPipe(translations), translations the entries of a plural object
keyToPipe(translations) ==
    Join(PipePart(<<"{","0","}">>, translations, <<"z","e","r","o">>)
         \o PipePart(<<"{","1","}">>, translations, <<"o","n","e">>)
         \o PipePart(<<"[","2",",","*","]">>, translations, <<"o","t","h","e","r">>),
         <<"|">>)

\* the loop of pipeToKey over the rules: result after rule i and the later ones
RECURSIVE PipeToKeyLoop(_, _, _)
PipeToKeyLoop(rules, i, result) ==
    IF i > Len(rules) THEN result
    ELSE PipeToKeyLoop(rules, i + 1,
            IF rules[i].kind = "exact" /\ rules[i].exact = 0
            THEN SetKey(result, <<"z","e","r","o">>, StrV(rules[i].text))
            ELSE IF rules[i].kind = "exact" /\ rules[i].exact = 1
            THEN SetKey(result, <<"o","n","e">>, StrV(rules[i].text))
            ELSE IF rules[i].kind = "range" /\ rules[i].inf
            THEN SetKey(result, <<"o","t","h","e","r">>, StrV(rules[i].text))
            ELSE result)

\* pipeToKey after the loop: the simple singular|plural form, then null (<<>>)
\* for an empty result and <<entries>> otherwise
PipeToKeyEnd(rules, result) ==
    IF Len(rules) = 2 /\ result = <<>>
    THEN <<  << Ent(<<"o","n","e">>, StrV(rules[1].text)), Ent(<<"o","t","h","e","r">>, StrV(rules[2].text)) >>  >>
    ELSE IF result # <<>> THEN <<result>> ELSE <<>>

PipeToKeyOf(rules) == PipeToKeyEnd(rules, PipeToKeyLoop(rules, 1, <<>>))

\* Pluralizer.pipeToKey(text)
pipeToKey(text) == PipeToKeyOf(parsePipeSeparated(text))

\* Pluralizer.resolve(value, count) of a Pluralizer of the given type bound to locale
resolve(type, locale, h, value, count) ==
    IF type = "key"
    THEN (IF value.t = "obj"
          THEN resolveKeyBased(locale, h[value.id].ents, count) ELSE value)
    ELSE IF type = "pipe"
    THEN (IF value.t = "str" THEN StrV(resolvePipeBased(value.s, count)) ELSE value)
    ELSE value

-----------------------------------------------------------------------------
(* Construction: what the constructor derives from the resolved options.   *)

\* optional values are <<>> (undefined) or <<v>>
None    == <<>>
Some(v) == <<v>>

\* a `string | string[] | undefined` option: kind is "none", "str" or "arr"
NoStrs     == [kind |-> "none", parts |-> <<>>]
OneStr(s)  == [kind |-> "str",  parts |-> <<s>>]
StrArr(ss) == [kind |-> "arr",  parts |-> ss]

\* BUILT_IN_MODE_CONFIGS
BUILT_IN_MODE_CONFIGS(mode) ==
    IF mode = "laravel"
    THEN [interpolationPrefix |-> <<":">>, interpolationSuffix |-> <<>>,
          pluralizationType |-> "pipe"]
    ELSE [interpolationPrefix |-> <<"%","{">>, interpolationSuffix |-> <<"}">>,
          pluralizationType |-> "key"]

\* I18n.getModeConfig: a mode that is not built in uses the rails configuration
getModeConfig(opts) ==
    IF opts.mode \in {"rails", "laravel"} THEN BUILT_IN_MODE_CONFIGS(opts.mode)
    ELSE BUILT_IN_MODE_CONFIGS("rails")

\* I18n.createInterpolator: the prefix and suffix of the Interpolator
InterpolatorPrefix(opts) ==
    IF opts.interpolation.prefix # None THEN opts.interpolation.prefix[1]
    ELSE getModeConfig(opts).interpolationPrefix
InterpolatorSuffix(opts) ==
    IF opts.interpolation.suffix # None THEN opts.interpolation.suffix[1]
    ELSE getModeConfig(opts).interpolationSuffix

\* I18n.createPluralizer: the type of the Pluralizer
PluralizerType(opts) ==
    LET type == IF opts.pluralization # None THEN opts.pluralization[1]
                ELSE getModeConfig(opts).pluralizationType
    IN  IF type \in {"key", "pipe"} THEN type ELSE "key"

\* arr.filter((loc, idx, arr) => arr.indexOf(loc) === idx)
AppendNew(init, x) == IF SeqIncludes(init, x) THEN init ELSE Append(init, x)
RECURSIVE Dedup(_)
Dedup(seq) ==
    IF seq = <<>> THEN <<>>
    ELSE AppendNew(Dedup(SubSeq(seq, 1, Len(seq) - 1)), seq[Len(seq)])

\* I18n.normalizeFallbackLocales
normalizeFallbackLocales(opts) ==
    IF opts.fallbackLocale.kind = "none" \/ opts.fallbackLocale = OneStr(<<>>)
    THEN <<opts.defaultLocale>>
    ELSE Dedup(Append(opts.fallbackLocale.parts, opts.defaultLocale))

\* I18n.determineInitialLocale (detectBrowserLocale off)
determineInitialLocale(opts) ==
    IF opts.locale # None /\ opts.locale[1] # <<>> THEN opts.locale[1]
    ELSE opts.defaultLocale

\* new Intl.PluralRules(locale) accepts only a structurally valid language
\* tag: a language subtag of 2-3 or 5-8 letters, then subtags of 1-8 letters
\* or digits, separated by '-'.  Any other string raises a RangeError.
WellFormedSubtags(subtags) ==
    /\ \A i \in 1..Len(subtags) :
          /\ Len(subtags[i]) \in 1..8
          /\ \A j \in 1..Len(subtags[i]) :
                 subtags[i][j] \in Lower \cup Upper \cup Digit
    /\ Len(subtags[1]) \in {2, 3, 5, 6, 7, 8}
    /\ \A j \in 1..Len(subtags[1]) : subtags[1][j] \in Lower \cup Upper
IsValidTag(locale) == WellFormedSubtags(Split(locale, "-"))

-----------------------------------------------------------------------------
(* Translator.translate.                                                   *)

\* String(value) of a string | string[] option
StrsToString(x) == IF x.kind = "arr" THEN Join(x.parts, <<",">>) ELSE x.parts[1]

Var(k, s)     == [k |-> k, nullish |-> FALSE, s |-> s]
NullishVar(k) == [k |-> k, nullish |-> TRUE,  s |-> <<>>]

\* the own properties of the options object o of a t call, each with String(value)
OptionValues(o) ==
       (IF o.default.kind # "none" THEN <<Var(<<"d","e","f","a","u","l","t">>, StrsToString(o.default))>> ELSE <<>>)
    \o (IF o.scope.kind # "none" THEN <<Var(<<"s","c","o","p","e">>, StrsToString(o.scope))>> ELSE <<>>)
    \o (IF o.count # None THEN <<Var(<<"c","o","u","n","t">>, IntToStr(o.count[1]))>> ELSE <<>>)
    \o (IF o.locale # None THEN <<Var(<<"l","o","c","a","l","e">>, o.locale[1])>> ELSE <<>>)
    \o o.vars

\* { ...options, count: options.count }
OptionValuesWithCount(o) ==
    IF o.count # None THEN OptionValues(o)
    ELSE OptionValues(o) \o <<NullishVar(<<"c","o","u","n","t">>)>>

\* Translator.applyScope
applyScope(key, scope) ==
    IF scope.kind = "none" \/ scope = OneStr(<<>>) THEN key
    ELSE Join(Append(scope.parts, key), <<".">>)

\* the characters JSON.stringify escapes in a string
RECURSIVE JSONEscape(_)
JSONEscape(s) ==
    IF s = <<>> THEN <<>>
    ELSE (CASE Head(s) = "\"" -> <<"\\", "\"">>
            [] Head(s) = "\\" -> <<"\\", "\\">>
            [] Head(s) = "\n" -> <<"\\", "n">>
            [] Head(s) = "\t" -> <<"\\", "t">>
            [] OTHER          -> <<Head(s)>>) \o JSONEscape(Tail(s))

JSONQuote(s) == <<"\"">> \o JSONEscape(s) \o <<"\"">>

RECURSIVE JSONStringify(_, _)
\* JSON.stringify(value)
JSONStringify(h, v) ==
    CASE v.t = "str"  -> JSONQuote(v.s)
      [] v.t = "num"  -> IntToStr(v.n)
      [] v.t = "bool" -> IF v.n = 1 THEN <<"t","r","u","e">> ELSE <<"f","a","l","s","e">>
      [] v.t = "arr"  ->
            LET ents == h[v.id].ents
            IN  <<"[">> \o Join([i \in 1..Len(ents) |-> JSONStringify(h, ents[i].v)],
                               <<",">>) \o <<"]">>
      [] v.t = "obj"  ->
            LET ents == h[v.id].ents
            IN  <<"{">> \o Join([i \in 1..Len(ents) |->
                                   JSONQuote(ents[i].k) \o <<":">>
                                   \o JSONStringify(h, ents[i].v)],
                               <<",">>) \o <<"}">>
      [] OTHER        -> <<"n","u","l","l">>

\* String(value) of a number, a boolean or null
ScalarToString(v) ==
    CASE v.t = "num"  -> IntToStr(v.n)
      [] v.t = "bool" -> IF v.n = 1 THEN <<"t","r","u","e">> ELSE <<"f","a","l","s","e">>
      [] OTHER        -> <<"n","u","l","l">>

\* a plural step that keeps the found value when it resolves to no form
PluralStep_KeepsUnresolved(h, opts, pl, found, o) ==
    IF o.count # None /\ found.t # "undef"
       /\ resolve(PluralizerType(opts), pl, h, found, o.count[1]).t # "undef"
    THEN resolve(PluralizerType(opts), pl, h, found, o.count[1])
    ELSE found

\* Translator.translateForLocale: <<string>>, or <<>> for undefined
\* the value after the plural step of translateForLocale
PluralStep(h, opts, pl, found, o) ==
    IF o.count # None /\ found.t # "undef"
    THEN resolve(PluralizerType(opts), pl, h, found, o.count[1])
    ELSE found

\* what translateForLocale returns for the value after the plural step
Rendered(h, opts, value, o) ==
    IF value.t = "undef" THEN None
    ELSE IF value.t # "str"
    THEN (IF value.t \in {"arr", "obj"} THEN Some(JSONStringify(h, value))
          ELSE Some(ScalarToString(value)))
    ELSE Some(interpolate(value.s, InterpolatorPrefix(opts), InterpolatorSuffix(opts),
                          OptionValuesWithCount(o)))

translateForLocale(h, opts, pl, key, locale, o) ==
    Rendered(h, opts, PluralStep(h, opts, pl, LookupIn(h, locale, key), o), o)

RECURSIVE ChainResult(_, _, _, _, _, _)
\* the loop of translate over the chain: the first defined result, or <<>>
OrElse(result, rest) == IF result # None THEN result ELSE rest
ChainResult(h, opts, pl, fullKey, chain, o) ==
    IF chain = <<>> THEN None
    ELSE OrElse(translateForLocale(h, opts, pl, fullKey, Head(chain), o),
                ChainResult(h, opts, pl, fullKey, Tail(chain), o))

\* what a call returned or threw, and the calls it made of the handler
Returned(s, calls) == [outcome |-> "ok", result |-> s, handlerCalls |-> calls]
Threw(calls)       == [outcome |-> "throw", result |-> <<>>, handlerCalls |-> calls]

\* Translator.translate(key, o) of a Translator with locale own and a
\* Pluralizer bound to pl; hret is what the missingTranslationHandler returns
\* when it is called (<<>> for undefined)
\* translate after the loop over the chain, result what the loop produced
AfterChain(opts, o, hret, locale, fullKey, result) ==
    IF result # None THEN Returned(result[1], <<>>)
    ELSE IF o.default.kind # "none"
    THEN (IF o.default.parts = <<>>
          THEN Threw(<<>>)   \* interpolate(undefined, ...): text.replace of undefined
          ELSE Returned(interpolate(o.default.parts[1], InterpolatorPrefix(opts),
                                    InterpolatorSuffix(opts), OptionValues(o)),
                        <<>>))
    ELSE IF opts.missingTranslationHandler /\ hret # None
    THEN Returned(hret[1], <<[key |-> fullKey, locale |-> locale]>>)
    ELSE Returned(fullKey,
                  IF opts.missingTranslationHandler
                  THEN <<[key |-> fullKey, locale |-> locale]>> ELSE <<>>)
TranslateIn(h, opts, pl, o, hret, locale, fullKey) ==
    AfterChain(opts, o, hret, locale, fullKey,
               ChainResult(h, opts, pl, fullKey,
                           buildFallbackChain(normalizeFallbackLocales(opts), locale), o))
translate(h, opts, own, pl, key, o, hret) ==
    TranslateIn(h, opts, pl, o, hret,
                IF o.locale # None THEN o.locale[1] ELSE own,
                applyScope(key, o.scope))

-----------------------------------------------------------------------------
(* Translator.addTranslations.                                             *)

RECURSIVE DeepMergeKeys_NoRecursion(_, _, _, _)
\* deepMerge that assigns every key of source, never descending
DeepMergeKeys_NoRecursion(h, target, source, keys) ==
    IF keys = <<>> THEN h
    ELSE DeepMergeKeys_NoRecursion(
             [h EXCEPT ![target].ents = SetKey(@, Head(keys),
                                               GetKey(h[source].ents, Head(keys)))],
             target, source, Tail(keys))

RECURSIVE DeepMergeKeys(_, _, _, _)
\* the loop of Translator.deepMerge over keys = Object.keys(source), on heap h
DeepMergeKeys(h, target, source, keys) ==
    IF keys = <<>> THEN h
    ELSE LET key         == Head(keys)
             sourceValue == GetKey(h[source].ents, key)
             targetValue == GetKey(h[target].ents, key)
             h1 == IF sourceValue.t = "obj" /\ targetValue.t = "obj"
                   THEN DeepMergeKeys(h, targetValue.id, sourceValue.id,
                                      Keys(h[sourceValue.id].ents))
                   ELSE [h EXCEPT ![target].ents = SetKey(@, key, sourceValue)]
         IN  DeepMergeKeys(h1, target, source, Tail(keys))

\* Translator.deepMerge(target, source)
deepMerge(h, target, source) == DeepMergeKeys(h, target, source, Keys(h[source].ents))

\* an object literal {} allocated on heap h gets the next id
NewId(h) == Cardinality(DOMAIN h)
EmptyObj == [arr |-> FALSE, ents |-> <<>>]

\* Translator.addTranslations(locale, newTranslations): the heap afterwards
\* if (!this.translations[locale]) this.translations[locale] = {}
EnsureLocale(h, locale) ==
    IF LocaleTranslations(h, locale).t = "undef"
    THEN [i \in DOMAIN h \cup {NewId(h)} |->
            IF i = NewId(h) THEN EmptyObj
            ELSE IF i = RootId
            THEN [h[i] EXCEPT !.ents = SetKey(@, locale, ObjV(NewId(h)))]
            ELSE h[i]]
    ELSE h
MergeInto(h1, locale, newTranslations) ==
    deepMerge(h1, LocaleTranslations(h1, locale).id, newTranslations)
addTranslations(h, locale, newTranslations) ==
    MergeInto(EnsureLocale(h, locale), locale, newTranslations)

\* Translator.getAvailableLocales
getAvailableLocales(h) == Keys(h[RootId].ents)

-----------------------------------------------------------------------------
(* The instances and the inputs the model ranges over.                     *)

\* locale codes
en   == <<"e","n">>
enUS == <<"e","n","-","U","S">>
ja   == <<"j","a">>
fr   == <<"f","r">>
ar   == <<"a","r">>
de   == <<"d","e">>

Obj(ents) == [arr |-> FALSE, ents |-> ents]
Arr(vals) == [arr |-> TRUE, ents |-> [i \in 1..Len(vals) |-> Ent(<<>>, vals[i])]]

\* The objects that exist once the constructor has run.  Objects 0..8 are
\* options.translations as the schema parse produced it (a fresh tree):
\*   en:    { g: "Hi %{n}", a: { b: "b" }, items: { one: "one", other: "%{count} many" },
\*            arr: ["x", 1], nul: null, num: 7, p: "{0} no|{1} one|[2,*] :count many",
\*            yes: true }
\*   en-US: { s: "US" }
\*   ja:    { g: "JA", items: { one: "ichi" } }
\*   fr:    { items: { zero: "rien", one: "un", other: "des" } }
\* Objects 10..11 belong to the caller, who passes them to addTranslations:
\*   10: { a: <11>, g: "Yo" }     11: { c: "C" }
InitialHeap ==
    [i \in 0..11 |->
       CASE i = 0 -> Obj(<<Ent(en, ObjV(1)), Ent(enUS, ObjV(5)),
                           Ent(ja, ObjV(6)), Ent(fr, ObjV(7))>>)
         [] i = 1 -> Obj(<<Ent(<<"g">>, StrV(<<"H","i"," ","%","{","n","}">>)),
                           Ent(<<"a">>, ObjV(2)),
                           Ent(<<"i","t","e","m","s">>, ObjV(3)),
                           Ent(<<"a","r","r">>, ArrV(4)),
                           Ent(<<"n","u","l">>, NullV),
                           Ent(<<"n","u","m">>, NumV(7)),
                           Ent(<<"p">>, StrV(<<"{","0","}"," ","n","o","|","{","1","}"," ","o","n","e","|","[","2",",","*","]"," ",":","c","o","u","n","t"," ","m","a","n","y">>)),
                           Ent(<<"y","e","s">>, BoolV(TRUE))>>)
         [] i = 2 -> Obj(<<Ent(<<"b">>, StrV(<<"b">>))>>)
         [] i = 3 -> Obj(<<Ent(<<"o","n","e">>, StrV(<<"o","n","e">>)),
                           Ent(<<"o","t","h","e","r">>, StrV(<<"%","{","c","o","u","n","t","}"," ","m","a","n","y">>))>>)
         [] i = 4 -> Arr(<<StrV(<<"x">>), NumV(1)>>)
         [] i = 5 -> Obj(<<Ent(<<"s">>, StrV(<<"U","S">>))>>)
         [] i = 6 -> Obj(<<Ent(<<"g">>, StrV(<<"J","A">>)), Ent(<<"i","t","e","m","s">>, ObjV(8))>>)
         [] i = 7 -> Obj(<<Ent(<<"i","t","e","m","s">>, ObjV(9))>>)
         [] i = 8 -> Obj(<<Ent(<<"o","n","e">>, StrV(<<"i","c","h","i">>))>>)
         [] i = 9 -> Obj(<<Ent(<<"z","e","r","o">>, StrV(<<"r","i","e","n">>)), Ent(<<"o","n","e">>, StrV(<<"u","n">>)),
                           Ent(<<"o","t","h","e","r">>, StrV(<<"d","e","s">>))>>)
         [] i = 10 -> Obj(<<Ent(<<"a">>, ObjV(11)), Ent(<<"g">>, StrV(<<"Y","o">>))>>)
         [] i = 11 -> Obj(<<Ent(<<"c">>, StrV(<<"C">>))>>)]

\* an options object of the constructor, as I18nOptionsSchema.parse resolves it
Options(mode, locale, fallbackLocale, handler) ==
    [mode |-> mode, defaultLocale |-> en, locale |-> locale,
     fallbackLocale |-> fallbackLocale, missingTranslationHandler |-> handler,
     interpolation |-> [prefix |-> None, suffix |-> None], pluralization |-> None]

\* the configurations the model constructs an I18n with
AllOptions ==
    { Options("rails",   None,       NoStrs,                 FALSE),
      Options("rails",   Some(enUS), NoStrs,                 TRUE),
      Options("rails",   Some(fr),   OneStr(ja),             FALSE),
      Options("rails",   Some(ar),   StrArr(<<fr, en, ja>>), TRUE),
      Options("laravel", None,       OneStr(ja),             TRUE),
      Options("django",  Some(ja),   StrArr(<<fr, ja>>),     FALSE) }

\* the options object of a t call
TOpts(locale, count, scope, default, tvars) ==
    [locale |-> locale, count |-> count, scope |-> scope, default |-> default,
     vars |-> tvars]
NoOpts == TOpts(None, None, NoStrs, NoStrs, <<>>)

\* `last` when nothing has been called yet, and the fields an operation sets
Idle == [op |-> "new", key |-> <<>>, o |-> NoOpts, arg |-> <<>>, outcome |-> "ok",
         result |-> <<>>, handlerCalls |-> <<>>, tracked |-> FALSE,
         notified |-> <<>>, cb |-> 0, ents |-> <<>>, n |-> 0, val |-> Undef,
         hret |-> <<>>, out |-> <<>>, fromMode |-> "", toMode |-> "",
         report |-> <<>>, back |-> <<>>]

\* the state after `new I18n(opts)`: the constructor throws unless
\* Intl.PluralRules accepts the initial locale
\* no element carries the directive yet
NoElement == [phase |-> "created", value |-> <<>>, bound |-> <<>>, content |-> <<>>]

InitWith(optionSet) ==
    /\ el = NoElement
    /\ options \in { opts \in optionSet : IsValidTag(determineInitialLocale(opts)) }
    /\ currentLocale = determineInitialLocale(options)
    /\ trLocale = currentLocale
    /\ plLocale = currentLocale
    /\ heap = InitialHeap
    /\ changeListeners = <<>>
    /\ unsubs = {}
    /\ missingKeys = <<>>
    /\ clock = 0
    /\ last = Idle

-----------------------------------------------------------------------------
(* I18n: the operations.                                                   *)

\* I18n.exists(key, locale)
exists(key, locale) ==
    TranslatorExists(heap, normalizeFallbackLocales(options), trLocale, key, locale)

\* Map.prototype.has
MapHas(map, mapKey) == \E i \in 1..Len(map) : map[i].mapKey = mapKey

\* `${locale}:${key}`
MapKeyOf(locale, key) == locale \o <<":">> \o key

\* what I18n.t does with the result of translate: the missingKeys map afterwards
TrackMissing(map, result, key, locale, now) ==
    IF result = key /\ ~exists(key, Some(locale))
    THEN (IF ~MapHas(map, MapKeyOf(locale, key))
          THEN Append(map, [mapKey |-> MapKeyOf(locale, key), key |-> key,
                            locale |-> locale, timestamp |-> now])
          ELSE map)
    ELSE map

\* I18n.t(key, o); hret is what the missingTranslationHandler returns if called.
\* An error thrown by translate leaves t before the tracking.
\* the map after the tracking step of t, r what translate returned or threw
Tracked(r, key, o) ==
    IF r.outcome = "ok"
    THEN TrackMissing(missingKeys, r.result, key,
                      IF o.locale # None THEN o.locale[1] ELSE currentLocale, clock)
    ELSE missingKeys
TDone(key, o, hret, r, map) ==
    /\ missingKeys' = map
    /\ last' = [Idle EXCEPT !.op = "t", !.key = key, !.o = o,
                            !.outcome = r.outcome, !.result = r.result,
                            !.handlerCalls = r.handlerCalls,
                            !.hret = IF r.handlerCalls # <<>> THEN hret ELSE None,
                            !.tracked = (map # missingKeys)]
    /\ clock' = clock + 1
    /\ UNCHANGED <<el, options, currentLocale, trLocale, plLocale, heap,
                   changeListeners, unsubs>>
TAfter(key, o, hret, r) == TDone(key, o, hret, r, Tracked(r, key, o))
\* a t whose plural step selects the category by the requested locale
T_RequestedSelector(key, o, hret) ==
    TAfter(key, o, hret,
           translate(heap, options, trLocale,
                     IF o.locale # None THEN o.locale[1] ELSE plLocale, key, o, hret))

T(key, o, hret) ==
    TAfter(key, o, hret, translate(heap, options, trLocale, plLocale, key, o, hret))

\* the mutant of RejectsLocale that forgets the check of the trimmed value
RejectsLocale_EmptyOnly(newLocale) == newLocale = <<>>

\* the validation of `set locale`: `!newLocale`, then `trimmed.length === 0`
RejectsLocale(newLocale) == newLocale = <<>> \/ Len(Trim(newLocale)) = 0

\* I18n `set locale(newLocale)`.  Translator.setLocale stores the locale and
\* then rebinds the Pluralizer, whose constructor throws on a tag that
\* Intl.PluralRules refuses; notifyChange calls the listeners in Set order.
SetLocale(newLocale) ==
    LET trimmed == Trim(newLocale)
    IN  IF RejectsLocale(newLocale)
        THEN /\ last' = [Idle EXCEPT !.op = "setLocale", !.arg = newLocale,
                                     !.outcome = "throw"]
             /\ UNCHANGED <<el, options, currentLocale, trLocale, plLocale, heap,
                            changeListeners, unsubs, missingKeys, clock>>
        ELSE IF currentLocale # trimmed
        THEN /\ currentLocale' = trimmed
             /\ trLocale' = trimmed
             /\ plLocale' = IF IsValidTag(trimmed) THEN trimmed ELSE plLocale
             /\ last' = [Idle EXCEPT !.op = "setLocale", !.arg = newLocale,
                                     !.outcome = IF IsValidTag(trimmed) THEN "ok"
                                                 ELSE "throw",
                                     !.notified = IF IsValidTag(trimmed)
                                                  THEN changeListeners ELSE <<>>]
             /\ UNCHANGED <<el, options, heap, changeListeners, unsubs, missingKeys, clock>>
        ELSE /\ last' = [Idle EXCEPT !.op = "setLocale", !.arg = newLocale]
             /\ UNCHANGED <<el, options, currentLocale, trLocale, plLocale, heap,
                            changeListeners, unsubs, missingKeys, clock>>

\* Set.prototype.delete
SeqWithout(seq, x) == SelectSeq(seq, LAMBDA y : y # x)

\* I18n.onChange(callback): Set.prototype.add keeps the place of a member
OnChange(callback) ==
    /\ changeListeners' = IF SeqIncludes(changeListeners, callback) THEN changeListeners
                          ELSE Append(changeListeners, callback)
    /\ unsubs' = unsubs \cup {callback}
    /\ last' = [Idle EXCEPT !.op = "onChange", !.cb = callback]
    /\ UNCHANGED <<el, options, currentLocale, trLocale, plLocale, heap, missingKeys, clock>>

\* a call of the function onChange(callback) returned
Unsubscribe(callback) ==
    /\ callback \in unsubs
    /\ changeListeners' = SeqWithout(changeListeners, callback)
    /\ last' = [Idle EXCEPT !.op = "unsubscribe", !.cb = callback]
    /\ UNCHANGED <<el, options, currentLocale, trLocale, plLocale, heap, unsubs,
                   missingKeys, clock>>

\* I18n.clearMissingKeys
ClearMissingKeys ==
    /\ missingKeys' = <<>>
    /\ last' = [Idle EXCEPT !.op = "clearMissingKeys"]
    /\ UNCHANGED <<el, options, currentLocale, trLocale, plLocale, heap,
                   changeListeners, unsubs, clock>>

\* I18n.addTranslations(locale, translations), translations the caller's object
\* with heap id partial
AddTranslations(locale, partial) ==
    /\ heap' = addTranslations(heap, locale, partial)
    /\ last' = [Idle EXCEPT !.op = "addTranslations", !.arg = locale, !.n = partial,
                            !.notified = changeListeners]
    /\ UNCHANGED <<el, options, currentLocale, trLocale, plLocale, changeListeners,
                   unsubs, missingKeys, clock>>

-----------------------------------------------------------------------------
(* The facade through its life: locale changes, listeners, added           *)
(* translations and t calls of a missing key.                              *)

\* callbacks are numbered 1 .. MaxListeners
MaxListeners == 2
Callbacks == 1..MaxListeners

\* values assigned to I18n.locale
LocaleArgs == { ja, <<" ","j","a"," ">>, <<>>, <<" ","\t">>, <<"e","n","_","U","S">>, en }

\* what a missingTranslationHandler returns
HandlerReturns == { None, Some(<<"H">>), Some(<<"x">>) }

Call(key, o) == [key |-> key, o |-> o]

\* the (locale, object) pairs passed to addTranslations
AddArgs == { <<de, 10>> }

Init == InitWith({ Options("rails", None, NoStrs, FALSE) })

Next ==
    \/ \E newLocale \in LocaleArgs : SetLocale(newLocale)
    \/ \E callback \in Callbacks : OnChange(callback)
    \/ \E callback \in Callbacks : Unsubscribe(callback)
    \/ clock < MaxFacadeCalls /\ T(<<"x">>, NoOpts, None)
    \/ ClearMissingKeys
    \/ \E a \in AddArgs : AddTranslations(a[1], a[2])

Spec == Init /\ [][Next]_vars

-----------------------------------------------------------------------------
(* One t call: an instance is constructed, its locale may be changed and   *)
(* translations added, and then t is called once.                          *)

\* keys passed to t
CallKeys == { <<"g">>, <<"a",".","b">>, <<"b">>, <<"a">>, <<"s">>, <<"x">>, <<"i","t","e","m","s">>, <<"n","u","l">>, <<"n","u","m">>,
              <<"a","r","r">>, <<"y","e","s">>, <<"c">>, <<"a",".","c">>, <<"a",".","b",".","c">>, <<"g",".","x">>, <<"a",".">>, <<>> }

\* locales passed as options.locale
CallLocales == { None, Some(ja), Some(enUS), Some(fr), Some(de), Some(<<"j","a","-","J","P">>),
                 Some(<<"f","r","-","C","A">>) }

Bob == <<[k |-> <<"n">>, nullish |-> FALSE, s |-> <<"B","o","b">>]>>

\* the t calls: every key under every locale; scopes; defaults; counts
Calls ==
    { Call(k, TOpts(l, None, NoStrs, NoStrs, <<>>)) : k \in CallKeys, l \in CallLocales }
    \cup
    { Call(k, TOpts(l, None, sc, NoStrs, <<>>)) :
        k \in { <<"b">>, <<"x">>, <<"c">> }, l \in { None, Some(ja) },
        sc \in { OneStr(<<"a">>), StrArr(<<<<"a">>>>), OneStr(<<>>), StrArr(<<>>),
                 StrArr(<<<<"a">>, <<"b">>>>) } }
    \cup
    { Call(k, TOpts(None, None, sc, d, vs)) :
        k \in { <<"x">>, <<"g">> }, sc \in { NoStrs, OneStr(<<"a">>) },
        d \in { OneStr(<<"D"," ","%","{","n","}">>), OneStr(<<":","n"," ","%","{","s","c","o","p","e","}">>), StrArr(<<<<"b">>, <<"z">>>>),
                StrArr(<<>>), OneStr(<<>>), OneStr(<<"x">>) },
        vs \in { <<>>, Bob } }
    \cup
    { Call(k, TOpts(l, Some(n), NoStrs, NoStrs, <<>>)) :
        k \in { <<"i","t","e","m","s">>, <<"p">>, <<"g">>, <<"x">>, <<"n","u","m">> }, l \in { None, Some(ja), Some(fr) },
        n \in -1..MaxCount }

SetupLocales == { ja, <<"e","n","_","U","S">>, fr }

InitCall == InitWith(AllOptions)

NextCall ==
    \/ clock = 0 /\ \E newLocale \in SetupLocales : SetLocale(newLocale)
    \/ clock = 0 /\ \E a \in AddArgs : AddTranslations(a[1], a[2])
    \/ clock = 0 /\ \E c \in Calls, hret \in HandlerReturns : T(c.key, c.o, hret)

SpecCall == InitCall /\ [][NextCall]_vars

-----------------------------------------------------------------------------
(* Properties of the facade.                                               *)

\* a string of white space only (the empty string included)
IsBlank(s) == \A i \in 1..Len(s) : s[i] \in WhiteSpace

\* C4: assigning an empty or whitespace-only string to I18n.locale throws and
\* changes nothing: the current locale, the Translator's locale, the
\* Pluralizer's binding, the missing-key map, the listeners and the
\* translations keep their values, and no listener is invoked.
C4_BlankLocaleRejected ==
    [][ (last'.op = "setLocale" /\ IsBlank(last'.arg))
        => /\ last'.outcome = "throw"
           /\ last'.notified = <<>>
           /\ UNCHANGED <<el, options, currentLocale, trLocale, plLocale, heap,
                          changeListeners, unsubs, missingKeys, clock>> ]_vars

\* a whitespace-only assignment was rejected while a listener was subscribed
\* and a missing key was on record
C4_Witness ==
    /\ last.op = "setLocale" /\ last.arg # <<>> /\ IsBlank(last.arg)
    /\ last.outcome = "throw"
    /\ changeListeners # <<>>
    /\ missingKeys # <<>>

\* C5: an assignment whose trimmed value differs from the current locale sets
\* the locale to the trimmed value and invokes every subscribed listener once,
\* in registration order; an assignment of the current locale invokes none;
\* an unsubscribed listener is not among those invoked.
C5_ChangeNotifiesAll ==
    [][ (last'.op = "setLocale" /\ ~IsBlank(last'.arg))
        => IF Trim(last'.arg) # currentLocale
           THEN /\ currentLocale' = Trim(last'.arg)
                /\ last'.notified = changeListeners
           ELSE /\ currentLocale' = currentLocale
                /\ last'.notified = <<>> ]_vars

-----------------------------------------------------------------------------
(* Properties of one t call.  T leaves the options, the translations and   *)
(* the Translator's locale as they were, so a state with last.op = "t"     *)
(* still holds what the call saw.                                          *)

\* the locale a t call requests
RequestedLocale(o) == IF o.locale # None THEN o.locale[1] ELSE trLocale

\* the key a t call looks up
LookedUpKey == applyScope(last.key, last.o.scope)

\* the chain as the specification words it: L, the language prefix of L when
\* L contains '-', the configured fallback locales in order, the default
\* locale; duplicates skipped
StatedChain(L) ==
    Dedup(<<L>> \o (IF Includes(L, "-") THEN <<Split(L, "-")[1]>> ELSE <<>>)
          \o options.fallbackLocale.parts \o <<options.defaultLocale>>)

\* the places of chain whose locale holds a value at key
Holders(chain, key) ==
    { i \in 1..Len(chain) : LookupIn(heap, chain[i], key).t # "undef" }

\* what t returns for the value the first holder has
FirstHolderResult(chain, holders, key, o) ==
    Rendered(heap, options, LookupIn(heap, chain[MinOf(holders)], key), o)[1]

ReturnsFirstHolder(chain, holders, key, o) ==
    holders # {} => /\ last.outcome = "ok"
                    /\ last.result = FirstHolderResult(chain, holders, key, o)

FirstWins(chain, key, o) == ReturnsFirstHolder(chain, Holders(chain, key), key, o)

\* C1: a t call without count returns the value of the first locale of the
\* chain [L, language prefix of L, configured fallbacks, default locale]
\* that holds a value at the key, whatever later locales of the chain hold.
C1_FirstChainLocaleWins ==
    (last.op = "t" /\ last.o.count = None)
    => FirstWins(StatedChain(RequestedLocale(last.o)), LookedUpKey, last.o)

\* t('g', {locale: 'ja-JP'}) returned ja's "JA" although en, later in the
\* chain, holds "Hi %{n}"
C1_Witness ==
    /\ last.op = "t" /\ last.key = <<"g">> /\ last.o.count = None
    /\ last.o.locale = Some(<<"j","a","-","J","P">>)
    /\ LookupIn(heap, en, <<"g">>).t = "str"
    /\ ~SeqIncludes(normalizeFallbackLocales(options), ja)
    /\ last.result = <<"J","A">>

\* no locale of the chain yields a value for the call
NoLocaleYields(chain, key, o) ==
    \A i \in 1..Len(chain) :
        translateForLocale(heap, options, plLocale, key, chain[i], o) = None

\* the resolution of a miss in the stated order
MissResolution(L, key, o) ==
    IF o.default.kind # "none"
    THEN /\ last.handlerCalls = <<>>
         /\ last.outcome = "ok"
         /\ last.result = interpolate(o.default.parts[1], InterpolatorPrefix(options),
                                      InterpolatorSuffix(options), OptionValues(o))
    ELSE IF options.missingTranslationHandler
    THEN /\ last.handlerCalls = <<[key |-> key, locale |-> L]>>
         /\ last.outcome = "ok"
         /\ last.result = IF last.hret # None THEN last.hret[1] ELSE key
    ELSE /\ last.handlerCalls = <<>>
         /\ last.outcome = "ok"
         /\ last.result = key

\* C2: when no locale of the chain yields a value, a defined default is
\* interpolated and returned (its first element when it is a sequence) and
\* the handler is not invoked; otherwise a configured handler is invoked once
\* with the scoped full key and the requested locale, and what it returns,
\* if defined, is the result; otherwise the scoped full key is returned.
C2_MissResolutionOrder ==
    (/\ last.op = "t"
     /\ NoLocaleYields(StatedChain(RequestedLocale(last.o)), LookedUpKey, last.o))
    => MissResolution(RequestedLocale(last.o), LookedUpKey, last.o)

\* C3: t returns a string and raises no error, for every key, requested
\* locale and options value, a default that is an empty sequence included.
C3_TNeverFails == last.op = "t" => last.outcome = "ok"

-----------------------------------------------------------------------------
(* Missing-key tracking over several t calls.                              *)

\* the t calls of the tracking specification
TrackCalls ==
    { Call(<<"x">>,   NoOpts),
      Call(<<"x">>,   TOpts(Some(ja), None, NoStrs, NoStrs, <<>>)),
      Call(<<"g">>,   NoOpts),
      Call(<<"b">>,   TOpts(None, None, OneStr(<<"a">>), NoStrs, <<>>)),
      Call(<<"x">>,   TOpts(None, None, OneStr(<<"a">>), NoStrs, <<>>)),
      Call(<<"c">>,   TOpts(Some(<<"a",":","b">>), None, NoStrs, NoStrs, <<>>)),
      Call(<<"b",":","c">>, TOpts(Some(<<"a">>), None, NoStrs, NoStrs, <<>>)),
      Call(<<"x">>,   TOpts(None, None, NoStrs, OneStr(<<"d">>), <<>>)) }

InitTrack == InitWith({ Options("rails", None,     NoStrs,     FALSE),
                        Options("rails", Some(fr), OneStr(ja), FALSE) })

NextTrack ==
    \/ clock < MaxClock /\ \E c \in TrackCalls : T(c.key, c.o, None)
    \/ ClearMissingKeys
    \/ \E newLocale \in { ja, en } : SetLocale(newLocale)

SpecTrack == InitTrack /\ [][NextTrack]_vars

\* getMissingKeys has an entry for (locale, key)
HasEntry(map, locale, key) ==
    \E i \in 1..Len(map) : map[i].locale = locale /\ map[i].key = key

\* the t call of a step found its key missing for the locale it requested
FoundMissing(result, key, locale) == result = key /\ ~exists(key, Some(locale))

\* the map after a t call that found (locale, key) missing, one entry per pair
OneEntryPerPair(map, locale, key, now) ==
    IF HasEntry(map, locale, key) THEN map
    ELSE Append(map, [mapKey |-> MapKeyOf(locale, key), key |-> key,
                      locale |-> locale, timestamp |-> now])

\* C6: the missing-key map holds one entry per distinct (locale, key) pair
\* found missing since the last clear: a t call that finds a pair missing
\* adds its entry unless the map has one for that pair, and then leaves the
\* map, the first entry and its timestamp as they are; any other t call
\* leaves the map alone.
C6_OneEntryPerPair ==
    [][ last'.op = "t" /\ last'.outcome = "ok"
        => missingKeys' =
             IF FoundMissing(last'.result, last'.key,
                             IF last'.o.locale # None THEN last'.o.locale[1]
                             ELSE currentLocale)
             THEN OneEntryPerPair(missingKeys,
                                  IF last'.o.locale # None THEN last'.o.locale[1]
                                  ELSE currentLocale,
                                  last'.key, clock)
             ELSE missingKeys ]_vars

\* C7: a t call adds an entry only if no locale of the chain holds a value at
\* the scoped full key; a call that resolves to a translation records nothing.
C7_TrackingSound ==
    (last.op = "t" /\ last.tracked)
    => Holders(StatedChain(RequestedLocale(last.o)), LookedUpKey) = {}

\* C8: after a t call without default and handler for which no locale of the
\* chain holds a value at the looked-up key, scoped or not, the map has an
\* entry for the requested locale and that key, and hasMissingKeys() is true.
C8_TrackingComplete ==
    (/\ last.op = "t"
     /\ last.o.default.kind = "none"
     /\ ~options.missingTranslationHandler
     /\ Holders(StatedChain(RequestedLocale(last.o)), LookedUpKey) = {})
    => /\ \/ HasEntry(missingKeys, RequestedLocale(last.o), LookedUpKey)
          \/ HasEntry(missingKeys, RequestedLocale(last.o), last.key)
       /\ Len(missingKeys) > 0

-----------------------------------------------------------------------------
(* Pluralizer.resolveKeyBased on its own.                                  *)

\* the plural categories
Categories == << <<"z","e","r","o">>, <<"o","n","e">>, <<"t","w","o">>, <<"f","e","w">>, <<"m","a","n","y">>, <<"o","t","h","e","r">> >>

\* the plural map with a form for each category of cats, each form the name
\* of its category
PluralMap(cats) ==
    SelectSeq([i \in 1..Len(Categories) |-> Ent(Categories[i], StrV(Categories[i]))],
              LAMBDA e : e.k \in cats)

\* an I18n per locale and, in last, a plural map and a count to resolve
InitPlural ==
    /\ el = NoElement
    /\ options \in { Options("rails", Some(l), NoStrs, FALSE) : l \in {en, ja, fr, ar} }
    /\ currentLocale = determineInitialLocale(options)
    /\ trLocale = currentLocale
    /\ plLocale = currentLocale
    /\ heap = InitialHeap
    /\ changeListeners = <<>>
    /\ unsubs = {}
    /\ missingKeys = <<>>
    /\ clock = 0
    /\ last \in { [Idle EXCEPT !.op = "input", !.ents = PluralMap(cats), !.n = count] :
                    cats \in SUBSET { Categories[i] : i \in 1..Len(Categories) },
                    count \in -1..MaxCount }

\* pluralizer.resolveKeyBased(last.ents, last.n) of the bound Pluralizer
ResolveKeyBased ==
    /\ last.op = "input"
    /\ last' = [last EXCEPT !.op = "resolveKeyBased",
                            !.val = resolveKeyBased(plLocale, last.ents, last.n)]
    /\ UNCHANGED <<el, options, currentLocale, trLocale, plLocale, heap,
                   changeListeners, unsubs, missingKeys, clock>>

NextPlural == ResolveKeyBased

SpecPlural == InitPlural /\ [][NextPlural]_vars

\* the form of map for category, undefined when map has none
FormOf(map, category) == IF HasKey(map, category) THEN GetKey(map, category) ELSE Undef

\* C10: resolveKeyBased returns map.zero when count is 0 and map has zero,
\* whatever the locale's category for 0; otherwise the form of the locale's
\* category for count when map has it; otherwise map.other when present;
\* otherwise undefined.  With the English selector and {zero, one, other}:
\* zero for 0, one for 1, other for every other non-negative count.
C10_ResolveKeyBased ==
    last.op = "resolveKeyBased"
    => /\ last.val =
            IF last.n = 0 /\ HasKey(last.ents, <<"z","e","r","o">>) THEN FormOf(last.ents, <<"z","e","r","o">>)
            ELSE IF HasKey(last.ents, getPluralCategory(plLocale, last.n))
            THEN FormOf(last.ents, getPluralCategory(plLocale, last.n))
            ELSE FormOf(last.ents, <<"o","t","h","e","r">>)
       /\ (/\ plLocale = en
           /\ last.ents = PluralMap({ <<"z","e","r","o">>, <<"o","n","e">>, <<"o","t","h","e","r">> })
           /\ last.n >= 0)
          => last.val = IF last.n = 0 THEN StrV(<<"z","e","r","o">>)
                        ELSE IF last.n = 1 THEN StrV(<<"o","n","e">>)
                        ELSE StrV(<<"o","t","h","e","r">>)

\* French puts 0 in category one, and a map with zero and one gave zero for 0
C10_Witness ==
    /\ last.op = "resolveKeyBased"
    /\ plLocale = fr /\ last.n = 0
    /\ getPluralCategory(plLocale, 0) = <<"o","n","e">>
    /\ HasKey(last.ents, <<"o","n","e">>)
    /\ last.val = StrV(<<"z","e","r","o">>)

-----------------------------------------------------------------------------
(* The Pluralizer's pipe syntax on its own: resolvePipeBased, and keyToPipe *)
(* followed by pipeToKey.                                                  *)

\* pipe-separated texts
PipeTexts ==
    { <<"{","0","}"," ","n","o","|","{","1","}"," ","o","n","e","|","[","2",",","*","]"," ","m","a","n","y">>, <<"o","n","e","|","m","a","n","y">>, <<"a","|","b","|","c">>, <<"[","0",",","1","]"," ","l","o","|","[","3",",","3","]"," ","h","i">>,
      <<"{","1","}"," ","x">>, <<>>, <<"|">>, <<"x">>, <<"[","0",",","2","]"," ","a","|","{","1","}"," ","b">>, <<"{","2","}"," ","t","w","o","|","t","e","x","t","|","[","3",",","*","]"," ","m">>,
      <<"{","0","}","a","|","[","2",",","*","]","b","|"," ","{","1","}"," "," ","c"," ">>, <<"[","1",",","*","]"," ","u","p","|","r","e","s","t","|","{","0","}"," ","z">> }

\* the texts of plural forms
FormTexts == { <<"a">>, <<"b"," ","c">>, <<"a","|","b">>, <<" ","x">>, <<>> }

\* the plural objects with keys among zero, one, other (in that order) and
\* texts among FormTexts, and one written in another order
PluralObjects ==
    { SelectSeq(<< Ent(<<"z","e","r","o">>, StrV(f[1])), Ent(<<"o","n","e">>, StrV(f[2])),
                   Ent(<<"o","t","h","e","r">>, StrV(f[3])) >>,
                LAMBDA e : e.k \in cats) :
        f \in [1..3 -> FormTexts],
        cats \in (SUBSET { <<"z","e","r","o">>, <<"o","n","e">>, <<"o","t","h","e","r">> }) \ {{}} }
    \cup { << Ent(<<"o","t","h","e","r">>, StrV(<<"m","a","n","y">>)), Ent(<<"o","n","e">>, StrV(<<"s","i","n","g","l","e">>)) >> }

\* an I18n and, in last, the input of one operation of the Pluralizer
InitPipe ==
    /\ el = NoElement
    /\ options = Options("laravel", None, NoStrs, FALSE)
    /\ currentLocale = determineInitialLocale(options)
    /\ trLocale = currentLocale
    /\ plLocale = currentLocale
    /\ heap = InitialHeap
    /\ changeListeners = <<>>
    /\ unsubs = {}
    /\ missingKeys = <<>>
    /\ clock = 0
    /\ last \in { [Idle EXCEPT !.op = "text", !.arg = text, !.n = count] :
                    text \in PipeTexts, count \in -1..MaxCount }
           \cup { [Idle EXCEPT !.op = "forms", !.ents = obj] : obj \in PluralObjects }

\* pluralizer.resolvePipeBased(last.arg, last.n)
ResolvePipeBased ==
    /\ last.op = "text"
    /\ last' = [last EXCEPT !.op = "resolvePipeBased",
                            !.result = resolvePipeBased(last.arg, last.n)]
    /\ UNCHANGED <<el, options, currentLocale, trLocale, plLocale, heap,
                   changeListeners, unsubs, missingKeys, clock>>

\* Pluralizer.pipeToKey(Pluralizer.keyToPipe(last.ents)): arg is the pipe
\* text, out what pipeToKey returned (<<>> for null, <<entries>> otherwise)
KeyToPipeToKey ==
    /\ last.op = "forms"
    /\ last' = [last EXCEPT !.op = "pipeToKey", !.arg = keyToPipe(last.ents),
                            !.out = pipeToKey(keyToPipe(last.ents))]
    /\ UNCHANGED <<el, options, currentLocale, trLocale, plLocale, heap,
                   changeListeners, unsubs, missingKeys, clock>>

NextPipe == ResolvePipeBased \/ KeyToPipeToKey

SpecPipe == InitPipe /\ [][NextPipe]_vars

\* the predicate of a rule as stated: exact == count, or
\* rangeStart <= count <= rangeEnd
StatedRuleMatch(rule, count) ==
    IF rule.kind = "exact" THEN rule.exact = count
    ELSE IF rule.kind = "range"
    THEN rule.rangeStart <= count /\ (rule.inf \/ count <= rule.rangeEnd)
    ELSE FALSE

StatedMatches(rules, count) ==
    { i \in 1..Len(rules) : StatedRuleMatch(rules[i], count) }

FirstMatchOrLast(rules, matches, result) ==
    IF matches # {} THEN result = rules[MinOf(matches)].text
    ELSE rules # <<>> => result = rules[Len(rules)].text

FirstMatchOrLastOf(rules, count, result) ==
    FirstMatchOrLast(rules, StatedMatches(rules, count), result)

\* C11: resolvePipeBased returns the text of the first rule, in parse order,
\* whose predicate matches count; when no rule matches it returns the text
\* of the last parsed rule, whatever its kind.
C11_FirstMatchingRule ==
    last.op = "resolvePipeBased"
    => FirstMatchOrLastOf(parsePipeSeparated(last.arg), last.n, last.result)

\* the count 2 falls between [0,1] and [3,3]: no rule matches and the text
\* of the last rule, a range, is returned
C11_Witness ==
    /\ last.op = "resolvePipeBased"
    /\ last.arg = <<"[","0",",","1","]"," ","l","o","|","[","3",",","3","]"," ","h","i">> /\ last.n = 2
    /\ StatedMatches(parsePipeSeparated(last.arg), last.n) = {}
    /\ last.result = <<"h","i">>

\* two objects have the same keys with the same values
SameObject(a, b) ==
    /\ Len(a) = Len(b)
    /\ { a[i] : i \in 1..Len(a) } = { b[i] : i \in 1..Len(b) }

\* C12: for a plural object whose keys are a non-empty subset of zero, one,
\* other with string values, pipeToKey(keyToPipe(obj)) equals obj: the same
\* keys with the same texts.
C12_PipeRoundTrip ==
    last.op = "pipeToKey"
    => last.out # <<>> /\ SameObject(last.out[1], last.ents)

-----------------------------------------------------------------------------
(* The converter (convertTranslations) and the CompatibilityChecker.       *)

\* A TranslationValue held by value: string | number | boolean | null |
\* array | object.  An array carries its elements under their index keys,
\* as Object.entries enumerates them.
TreeStr(s)    == [t |-> "string", s |-> s,    n |-> 0, ents |-> <<>>]
TreeNum(n)    == [t |-> "number", s |-> <<>>, n |-> n, ents |-> <<>>]
TreeNull      == [t |-> "null",   s |-> <<>>, n |-> 0, ents |-> <<>>]
TreeObj(ents) == [t |-> "object", s |-> <<>>, n |-> 0, ents |-> ents]
TreeArr(items) ==
    [t |-> "array", s |-> <<>>, n |-> 0,
     ents |-> [i \in 1..Len(items) |-> Ent(NatToStr(i - 1), items[i])]]

\* getInterpolationOptions(mode)
getInterpolationOptions(mode) ==
    IF mode = "rails" THEN RailsInterpolationDefaults
    ELSE LaravelInterpolationDefaults

\* convertString(str, fromMode, toMode)
convertString(str, fromMode, toMode) ==
    convert(str, getInterpolationOptions(fromMode), getInterpolationOptions(toMode))

pluralKeys == { <<"z","e","r","o">>, <<"o","n","e">>, <<"t","w","o">>, <<"f","e","w">>, <<"m","a","n","y">>, <<"o","t","h","e","r">> }

\* isPluralObject(obj), and CompatibilityChecker.isRailsPluralObject(obj)
isPluralObject(ents) ==
    Len(ents) > 0 /\ \A i \in 1..Len(ents) : ents[i].k \in pluralKeys

IsStringEnt(e) == e.v.t = "string"

\* convertPluralObject(obj, fromMode, toMode)
convertPluralObject(ents, fromMode, toMode) ==
    IF fromMode = "rails" /\ toMode = "laravel"
    THEN TreeStr(keyToPipe(
            [i \in 1..Len(SelectSeq(ents, IsStringEnt)) |->
                Ent(SelectSeq(ents, IsStringEnt)[i].k,
                    TreeStr(convertString(SelectSeq(ents, IsStringEnt)[i].v.s,
                                          fromMode, toMode)))]))
    ELSE IF fromMode = "laravel" /\ toMode = "rails"
    THEN TreeObj([i \in 1..Len(ents) |->
            IF IsStringEnt(ents[i])
            THEN Ent(ents[i].k, TreeStr(convertString(ents[i].v.s, fromMode, toMode)))
            ELSE ents[i]])
    ELSE TreeObj(ents)

RECURSIVE convertLocaleTranslations(_, _, _)
\* one iteration of the loop of convertLocaleTranslations: the value stored
\* under the key
ConvertValue(value, fromMode, toMode) ==
    IF value.t = "string" THEN TreeStr(convertString(value.s, fromMode, toMode))
    ELSE IF value.t = "object"
    THEN IF isPluralObject(value.ents)
         THEN convertPluralObject(value.ents, fromMode, toMode)
         ELSE TreeObj(convertLocaleTranslations(value.ents, fromMode, toMode))
    ELSE value

\* convertLocaleTranslations(translations, fromMode, toMode)
convertLocaleTranslations(ents, fromMode, toMode) ==
    [i \in 1..Len(ents) |-> Ent(ents[i].k, ConvertValue(ents[i].v, fromMode, toMode))]

\* convertTranslations(translations, fromMode, toMode), translations the
\* entries locale -> namespace
convertTranslations(translations, fromMode, toMode) ==
    IF fromMode = toMode THEN translations
    ELSE [i \in 1..Len(translations) |->
            Ent(translations[i].k,
                TreeObj(convertLocaleTranslations(translations[i].v.ents,
                                                  fromMode, toMode)))]

\* an entry of warnings or of errors
Issue(kind, key, type) == [kind |-> kind, key |-> key, type |-> type]

\* /^[a-zA-Z_][a-zA-Z0-9_]*$/.test(variable)
ValidVariableName(variable) ==
    /\ variable # <<>>
    /\ variable[1] \in IdentStart
    /\ \A i \in 1..Len(variable) : variable[i] \in IdentChar

\* the loop of checkInterpolation over the extracted variables
InterpolationIssues(variables, toMode, key) ==
    [i \in 1..Len(SelectSeq(variables, LAMBDA v : toMode = "laravel" /\ ~ValidVariableName(v)))
        |-> Issue("warning", key, "invalid_variable_name")]

\* CompatibilityChecker.checkInterpolation(value, fromMode, toMode, key, ...)
checkInterpolation(value, fromMode, toMode, key) ==
    InterpolationIssues(
        IF fromMode = "rails"
        THEN extractVariables(value, RailsInterpolationDefaults.prefix,
                              RailsInterpolationDefaults.suffix)
        ELSE extractVariables(value, LaravelInterpolationDefaults.prefix,
                              LaravelInterpolationDefaults.suffix),
        toMode, key)

\* /\[\d+,(\d+|\*)\]/ tried at position i of value, d the digits after "["
RangePatternAfter(value, j) ==
    \/ StartsWithAt(value, <<"*","]">>, j)
    \/ /\ DigitRun(value, j) > 0
       /\ StartsWithAt(value, <<"]">>, j + DigitRun(value, j))
RangePatternAt(value, i, d) ==
    /\ value[i] = "["
    /\ d > 0
    /\ StartsWithAt(value, <<",">>, i + 1 + d)
    /\ i + 2 + d <= Len(value)
    /\ RangePatternAfter(value, i + 2 + d)

hasRangePattern(value) ==
    \E i \in 1..Len(value) : RangePatternAt(value, i, DigitRun(value, i + 1))

RECURSIVE ExactMatchesFrom(_, _)
\* value.match(/\{(\d+)\}/g) mapped through parseInt, from position i
ExactMatchesAt(value, i, d) ==
    IF value[i] = "{" /\ d > 0 /\ StartsWithAt(value, <<"}">>, i + 1 + d)
    THEN <<StrToNat(SubSeq(value, i + 1, i + d))>> \o ExactMatchesFrom(value, i + d + 2)
    ELSE ExactMatchesFrom(value, i + 1)
ExactMatchesFrom(value, i) ==
    IF i > Len(value) THEN <<>>
    ELSE ExactMatchesAt(value, i, DigitRun(value, i + 1))

\* Pluralizer.pipeToKey has no throwing path: new Pluralizer('pipe') builds
\* Intl.PluralRules('en'), parsing is matching and slicing of a string, and
\* a text that yields no plural form makes it return null
pipeToKeyThrows(text) == FALSE

\* CompatibilityChecker.checkLaravelPluralString(value, toMode, key, ...)
checkLaravelPluralString(value, toMode, key) ==
    IF toMode # "rails" THEN <<>>
    ELSE (IF hasRangePattern(value)
          THEN <<Issue("warning", key, "unsupported_range_plural")>> ELSE <<>>)
         \o [i \in 1..Len(SelectSeq(ExactMatchesFrom(value, 1), LAMBDA num : num > 2))
                |-> Issue("warning", key, "unsupported_plural_form")]
         \o (IF pipeToKeyThrows(value)
             THEN <<Issue("error", key, "interpolation_syntax")>> ELSE <<>>)

\* CompatibilityChecker.checkStringValue(value, fromMode, toMode, key, ...)
checkStringValue(value, fromMode, toMode, key) ==
    checkInterpolation(value, fromMode, toMode, key)
    \o (IF fromMode = "laravel" /\ Includes(value, "|")
        THEN checkLaravelPluralString(value, toMode, key) ELSE <<>>)

RECURSIVE FormText(_)
\* String(text) of a plural form, which checkPluralObject hands to
\* extractVariables whatever its type
FormText(value) ==
    IF value.t = "string" THEN value.s
    ELSE IF value.t = "number" THEN IntToStr(value.n)
    ELSE IF value.t = "null" THEN <<"n","u","l","l">>
    ELSE IF value.t = "object" THEN <<"[","o","b","j","e","c","t"," ","O","b","j","e","c","t","]">>
    ELSE Join([i \in 1..Len(value.ents) |->
                  IF value.ents[i].v.t = "null" THEN <<>>
                  ELSE FormText(value.ents[i].v)],
              <<",">>)

\* checkPluralObject without the warning for the two and few forms
checkPluralObject_NoTwoFew(ents, fromMode, toMode, key) ==
    IF fromMode # "rails" \/ toMode # "laravel" THEN <<>>
    ELSE Concat([i \in 1..Len(ents) |->
                   checkInterpolation(FormText(ents[i].v), fromMode, toMode, key)])

\* CompatibilityChecker.checkPluralObject(value, fromMode, toMode, key, ...)
checkPluralObject(ents, fromMode, toMode, key) ==
    IF fromMode # "rails" \/ toMode # "laravel" THEN <<>>
    ELSE (IF HasKey(ents, <<"t","w","o">>) \/ HasKey(ents, <<"f","e","w">>)
          THEN <<Issue("warning", key, "unsupported_plural_form")>> ELSE <<>>)
         \o Concat([i \in 1..Len(ents) |->
                      checkInterpolation(FormText(ents[i].v), fromMode, toMode, key)])

RECURSIVE checkTranslations(_, _, _, _)
\* one iteration of the loop of checkTranslations, for value under fullKey
CheckValue(value, fromMode, toMode, fullKey) ==
    IF value.t = "string" THEN checkStringValue(value.s, fromMode, toMode, fullKey)
    ELSE IF value.t \in {"object", "array"}
    THEN IF isPluralObject(value.ents)
         THEN checkPluralObject(value.ents, fromMode, toMode, fullKey)
         ELSE checkTranslations(value.ents, fromMode, toMode, fullKey)
    ELSE <<>>

\* CompatibilityChecker.checkTranslations(obj, fromMode, toMode, prefix, ...):
\* the issues it pushes, in order
checkTranslations(ents, fromMode, toMode, prefix) ==
    Concat([i \in 1..Len(ents) |->
              CheckValue(ents[i].v, fromMode, toMode,
                         IF prefix # <<>> THEN prefix \o <<".">> \o ents[i].k
                         ELSE ents[i].k)])

IsWarning(issue) == issue.kind = "warning"
IsError(issue)   == issue.kind = "error"

\* the CompatibilityReport built from the pushed issues
Report(issues) ==
    [compatible |-> Len(SelectSeq(issues, IsError)) = 0,
     warnings   |-> SelectSeq(issues, IsWarning),
     errors     |-> SelectSeq(issues, IsError)]

\* CompatibilityChecker.check(translations, fromMode, toMode)
check(translations, fromMode, toMode) ==
    Report(checkTranslations(translations, fromMode, toMode, <<>>))

-----------------------------------------------------------------------------
(* Checking and converting a parsed file, as the convert command does:     *)
(* checkCompatibility, then convertTranslations, and the conversion of     *)
(* the result in the opposite direction.                                   *)

\* mode tags: the two built-in ones and a custom one
Modes == { "rails", "laravel", "django" }

Forms(ents) == TreeObj(ents)
OnlyEn(ents) == << Ent(en, TreeObj(ents)) >>

\* the parsed files: locale -> namespace
Trees ==
    { OnlyEn(<< Ent(<<"g">>, TreeStr(<<"H","i"," ","%","{","n","a","m","e","}">>)) >>),
      OnlyEn(<< Ent(<<"g">>, TreeStr(<<"H","i"," ",":","n","a","m","e">>)) >>),
      OnlyEn(<< Ent(<<"i","t","e","m","s">>, Forms(<< Ent(<<"o","n","e">>, TreeStr(<<"a">>)),
                                        Ent(<<"o","t","h","e","r">>, TreeStr(<<"%","{","c","o","u","n","t","}"," ","b">>)) >>)) >>),
      OnlyEn(<< Ent(<<"i","t","e","m","s">>, Forms(<< Ent(<<"o","n","e">>, TreeStr(<<"1">>)),
                                        Ent(<<"t","w","o">>, TreeStr(<<"2">>)),
                                        Ent(<<"o","t","h","e","r">>, TreeStr(<<"n">>)) >>)) >>),
      OnlyEn(<< Ent(<<"m">>, TreeObj(<< Ent(<<"i","t","e","m","s">>,
                    Forms(<< Ent(<<"f","e","w">>, TreeStr(<<"f">>)),
                             Ent(<<"o","t","h","e","r">>, TreeNum(1)) >>)) >>)) >>),
      OnlyEn(<< Ent(<<"k">>, TreeStr(<<"a","|","b","|","c">>)) >>),
      OnlyEn(<< Ent(<<"k">>, TreeStr(<<"{","0","}"," ","n","o","|","{","1","}"," ","o","n","e","|","[","2",",","*","]"," ","m","a","n","y">>)) >>),
      OnlyEn(<< Ent(<<"k">>, TreeStr(<<"{","3","}"," ","x","|","y">>)) >>),
      OnlyEn(<< Ent(<<"k">>, TreeStr(<<"o","n","e","|","m","a","n","y"," ",":","n">>)) >>),
      OnlyEn(<< Ent(<<"l","i","s","t">>, TreeArr(<< TreeStr(<<"%","{","n","}">>), TreeStr(<<":","n">>) >>)) >>),
      OnlyEn(<< Ent(<<"l","i","s","t">>, TreeArr(<< TreeStr(<<"x","|">>), TreeNull >>)) >>),
      OnlyEn(<< Ent(<<"m">>, TreeObj(<< Ent(<<"g">>, TreeStr(<<"%","{","a","}","%","{","b","}">>)) >>)),
                Ent(<<"n">>, TreeNum(5)), Ent(<<"z">>, TreeNull) >>),
      OnlyEn(<< Ent(<<"k">>, TreeStr(<<"%","{","n","}","x">>)) >>),
      OnlyEn(<< Ent(<<"k">>, TreeStr(<<":","n"," ",":","n","x">>)) >>),
      OnlyEn(<< >>),
      << Ent(en, TreeObj(<< Ent(<<"k">>, TreeStr(<<"p","l","a","i","n">>)) >>)),
         Ent(ja, TreeObj(<< Ent(<<"m">>, TreeObj(<< Ent(<<"k">>, TreeStr(<<"|">>)) >>)) >>)) >> }

InitConvert ==
    /\ el = NoElement
    /\ options = Options("rails", None, NoStrs, FALSE)
    /\ currentLocale = determineInitialLocale(options)
    /\ trLocale = currentLocale
    /\ plLocale = currentLocale
    /\ heap = InitialHeap
    /\ changeListeners = <<>>
    /\ unsubs = {}
    /\ missingKeys = <<>>
    /\ clock = 0
    /\ last \in { [Idle EXCEPT !.op = "parseFile", !.ents = tree,
                               !.fromMode = fromMode, !.toMode = toMode] :
                    tree \in Trees, fromMode \in Modes, toMode \in Modes }

\* report = checkCompatibility(content, fromMode, toMode)
CheckCompatibility ==
    /\ last.op = "parseFile"
    /\ last' = [last EXCEPT !.op = "checkCompatibility",
                            !.report = check(last.ents, last.fromMode, last.toMode)]
    /\ UNCHANGED <<el, options, currentLocale, trLocale, plLocale, heap,
                   changeListeners, unsubs, missingKeys, clock>>

\* converted = convertTranslations(translations, fromMode, toMode); the
\* command aborts before it when the report is not compatible
ConvertTranslations ==
    /\ last.op = "checkCompatibility"
    /\ last.report.compatible
    /\ last' = [last EXCEPT !.op = "convertTranslations",
                            !.out = convertTranslations(last.ents, last.fromMode,
                                                        last.toMode)]
    /\ UNCHANGED <<el, options, currentLocale, trLocale, plLocale, heap,
                   changeListeners, unsubs, missingKeys, clock>>

\* convertTranslations(converted, toMode, fromMode): the opposite direction
ConvertBack ==
    /\ last.op = "convertTranslations"
    /\ last' = [last EXCEPT !.op = "convertBack",
                            !.back = convertTranslations(last.out, last.toMode,
                                                         last.fromMode)]
    /\ UNCHANGED <<el, options, currentLocale, trLocale, plLocale, heap,
                   changeListeners, unsubs, missingKeys, clock>>

NextConvert == CheckCompatibility \/ ConvertTranslations \/ ConvertBack

SpecConvert == InitConvert /\ [][NextConvert]_vars

\* the two directions between the conventions
Directions == { <<"rails", "laravel">>, <<"laravel", "rails">> }

\* C13: every lossy conversion is reported: in either direction between
\* rails and laravel, when the report has no warnings and no errors,
\* converting the tree and converting the result back in the opposite
\* direction reproduces the original tree.
C13_LossyConversionReported ==
    ( /\ last.op = "convertBack"
      /\ <<last.fromMode, last.toMode>> \in Directions
      /\ last.report.warnings = <<>>
      /\ last.report.errors = <<>> )
    => last.back = last.ents

RECURSIVE StringLeaves(_, _)
\* the string leaves of a tree with their dot-path keys, through nested
\* mappings and sequences
LeavesOf(value, fullKey) ==
    IF value.t = "string" THEN << [key |-> fullKey, s |-> value.s] >>
    ELSE IF value.t \in {"object", "array"} THEN StringLeaves(value.ents, fullKey)
    ELSE <<>>
StringLeaves(ents, prefix) ==
    Concat([i \in 1..Len(ents) |->
              LeavesOf(ents[i].v, IF prefix # <<>> THEN prefix \o <<".">> \o ents[i].k
                                  ELSE ents[i].k)])

\* a pipe-syntax string leaf that pipeToKey cannot turn into plural forms
IsMalformedPipe(leaf) == Includes(leaf.s, "|") /\ pipeToKey(leaf.s) = <<>>

MalformedPipeLeaves(ents) == SelectSeq(StringLeaves(ents, <<>>), IsMalformedPipe)

ReportsMalformed(report, malformed) ==
    /\ report.compatible = FALSE <=> malformed # <<>>
    /\ \A i \in 1..Len(malformed) :
          \E j \in 1..Len(report.errors) : report.errors[j].key = malformed[i].key

\* C14: from laravel to rails, compatible is false if and only if the tree
\* holds a pipe-syntax string leaf that pipeToKey cannot turn into plural
\* forms, and each such leaf has an entry in errors under its dot-path key.
C14_MalformedPipeIsError ==
    (last.op = "checkCompatibility" /\ last.fromMode = "laravel" /\ last.toMode = "rails")
    => ReportsMalformed(last.report, MalformedPipeLeaves(last.ents))

RECURSIVE HasTwoOrFew(_)
\* the tree holds a plural object with a two or a few form
IsTwoOrFew(value) ==
    /\ value.t \in {"object", "array"}
    /\ IF isPluralObject(value.ents)
       THEN HasKey(value.ents, <<"t","w","o">>) \/ HasKey(value.ents, <<"f","e","w">>)
       ELSE HasTwoOrFew(value.ents)
HasTwoOrFew(ents) == \E i \in 1..Len(ents) : IsTwoOrFew(ents[i].v)

HasWarning(report, type) ==
    \E i \in 1..Len(report.warnings) : report.warnings[i].type = type

ReportConsistent(report, ents, fromMode, toMode) ==
    /\ report.compatible <=> report.errors = <<>>
    /\ (fromMode = "rails" /\ toMode = "laravel" /\ HasTwoOrFew(ents))
       => (HasWarning(report, "unsupported_plural_form") /\ report.compatible)
    /\ fromMode = toMode => (report.warnings = <<>> /\ report.errors = <<>>)

\* C15: for every tree and mode pair the report has compatible exactly when
\* errors is empty; from rails to laravel a plural object with a two or few
\* form gives an unsupported_plural_form warning and leaves compatible true;
\* with fromMode = toMode there are no warnings and no errors.
C15_CompatibleIffNoErrors ==
    last.op = "checkCompatibility"
    => ReportConsistent(last.report, last.ents, last.fromMode, last.toMode)

\* a rails to laravel check of a tree with a two form: warned, compatible
C15_Witness ==
    /\ last.op = "checkCompatibility"
    /\ last.fromMode = "rails" /\ last.toMode = "laravel"
    /\ HasTwoOrFew(last.ents)
    /\ HasWarning(last.report, "unsupported_plural_form")
    /\ last.report.compatible

RECURSIVE RewritePlaceholdersFrom(_, _)
\* each %{name} of text becomes :name, from position i; n the length of the
\* name of the placeholder at i (0: none there)
RewriteAt(text, i, n) ==
    IF n = 0 THEN <<text[i]>> \o RewritePlaceholdersFrom(text, i + 1)
    ELSE <<":">> \o SubSeq(text, i + 2, i + 1 + n)
         \o RewritePlaceholdersFrom(text, i + n + 3)
RewritePlaceholdersFrom(text, i) ==
    IF i > Len(text) THEN <<>>
    ELSE RewriteAt(text, i, MatchNameLen(text, <<"%","{">>, <<"}">>, i))

RewritePlaceholders(text) == RewritePlaceholdersFrom(text, 1)

\* the string forms of a plural object with their placeholders rewritten
RewrittenForms(ents) ==
    [i \in 1..Len(SelectSeq(ents, IsStringEnt)) |->
        Ent(SelectSeq(ents, IsStringEnt)[i].k,
            TreeStr(RewritePlaceholders(SelectSeq(ents, IsStringEnt)[i].v.s)))]

RECURSIVE RailsToLaravelTree(_)
\* the stated result for a value: string leaves rewritten through nested
\* mappings and through sequences, plural objects replaced by one string
RailsToLaravelValue(value) ==
    IF value.t = "string" THEN TreeStr(RewritePlaceholders(value.s))
    ELSE IF value.t = "object" /\ isPluralObject(value.ents)
    THEN TreeStr(keyToPipe(RewrittenForms(value.ents)))
    ELSE IF value.t \in {"object", "array"}
    THEN [value EXCEPT !.ents = RailsToLaravelTree(value.ents)]
    ELSE value
RailsToLaravelTree(ents) ==
    [i \in 1..Len(ents) |-> Ent(ents[i].k, RailsToLaravelValue(ents[i].v))]

\* C16: convertTranslations(tree, rails, laravel) rewrites every string leaf
\* reachable through nested mappings and through sequences so that %{name}
\* becomes :name, replaces every plural object by keyToPipe of its rewritten
\* forms, and passes every other value through unchanged.
C16_RailsToLaravelRewritesAll ==
    (last.op = "convertTranslations" /\ last.fromMode = "rails" /\ last.toMode = "laravel")
    => last.out = RailsToLaravelTree(last.ents)

\* a tag other than rails and laravel read as rails
AsRails(mode) == IF mode \in {"rails", "laravel"} THEN mode ELSE "rails"

\* C19: I18n construction, convertTranslations and checkCompatibility treat
\* a mode tag other than rails and laravel exactly as they treat rails.
C19_UnknownTagIsRails ==
    /\ getModeConfig(Options("django", None, NoStrs, FALSE))
         = getModeConfig(Options("rails", None, NoStrs, FALSE))
    /\ last.op = "checkCompatibility"
       => last.report = check(last.ents, AsRails(last.fromMode), AsRails(last.toMode))
    /\ last.op = "convertTranslations"
       => last.out = convertTranslations(last.ents, AsRails(last.fromMode),
                                         AsRails(last.toMode))

-----------------------------------------------------------------------------
(* Adding translations: an instance whose callers merge partial trees      *)
(* into its locales and assign the locale in between.                      *)

\* InitialHeap and the objects callers pass to addTranslations:
\*   10: { a: { c: "C" }, g: "Yo" }           12: { a: "x" }
\*   13: { arr: ["y"], items: { one: "uno" }, nul: { k: "v" } }
MergeHeap ==
    [i \in 0..16 |->
       CASE i <= 11 -> InitialHeap[i]
         [] i = 12 -> Obj(<<Ent(<<"a">>, StrV(<<"x">>))>>)
         [] i = 13 -> Obj(<<Ent(<<"a","r","r">>, ArrV(14)), Ent(<<"i","t","e","m","s">>, ObjV(15)),
                            Ent(<<"n","u","l">>, ObjV(16))>>)
         [] i = 14 -> Arr(<<StrV(<<"y">>)>>)
         [] i = 15 -> Obj(<<Ent(<<"o","n","e">>, StrV(<<"u","n","o">>))>>)
         [] i = 16 -> Obj(<<Ent(<<"k">>, StrV(<<"v">>))>>)]

\* the partial trees and the locales passed to addTranslations
Partials == { 10, 12, 13 }
MergeLocales == { en, de }

InitMerge ==
    /\ el = NoElement
    /\ options = Options("rails", None, NoStrs, FALSE)
    /\ currentLocale = determineInitialLocale(options)
    /\ trLocale = currentLocale
    /\ plLocale = currentLocale
    /\ heap = MergeHeap
    /\ changeListeners = <<>>
    /\ unsubs = {}
    /\ missingKeys = <<>>
    /\ clock = 0
    /\ last = Idle

NextMerge ==
    \/ \E locale \in MergeLocales, partial \in Partials : AddTranslations(locale, partial)
    \/ SetLocale(ja)

SpecMerge == InitMerge /\ [][NextMerge]_vars

RECURSIVE ValueOf(_, _)
\* the value a reference denotes on heap h, held by value
ValueOf(h, v) ==
    IF v.t \in {"obj", "arr"}
    THEN [t |-> v.t, s |-> <<>>, n |-> 0,
          ents |-> [i \in 1..Len(h[v.id].ents) |->
                      Ent(h[v.id].ents[i].k, ValueOf(h, h[v.id].ents[i].v))]]
    ELSE [t |-> v.t, s |-> v.s, n |-> v.n, ents |-> <<>>]

RECURSIVE StatedMerge(_, _, _)
\* the stated value under one key of partial: merged when both values are
\* non-array mappings, the new value otherwise
StatedMergeValue(old, new) ==
    IF old.t = "obj" /\ new.t = "obj"
    THEN [old EXCEPT !.ents = StatedMerge(old.ents, new.ents, 1)]
    ELSE new
\* the entries of a mapping after the entries i.. of partial are merged in
StatedMerge(ents, partial, i) ==
    IF i > Len(partial) THEN ents
    ELSE StatedMerge(SetKey(ents, partial[i].k,
                            StatedMergeValue(GetKey(ents, partial[i].k), partial[i].v)),
                     partial, i + 1)

\* the mapping of a locale by value; no entries when the locale is absent
LocaleValue(h, locale) ==
    IF LocaleTranslations(h, locale).t = "undef" THEN <<>>
    ELSE ValueOf(h, LocaleTranslations(h, locale)).ents

MergedAsStated(before, partial, after) ==
    /\ after = StatedMerge(before, partial, 1)
    /\ \A i \in 1..Len(before) :
          ~HasKey(partial, before[i].k) => GetKey(after, before[i].k) = before[i].v

\* C17: addTranslations(locale, partial) creates the locale's mapping if
\* absent and deep-merges partial into it: two non-array mappings under a
\* key are merged recursively, otherwise the new value replaces the old one
\* (sequences are replaced), and every key of the locale that partial does
\* not mention keeps its value.
C17_DeepMerge ==
    [][last'.op = "addTranslations"
       => /\ LocaleTranslations(heap', last'.arg).t = "obj"
          /\ MergedAsStated(LocaleValue(heap, last'.arg),
                            ValueOf(heap, ObjV(last'.n)).ents,
                            LocaleValue(heap', last'.arg))]_vars

\* en after { a: { c: "C" }, g: "Yo" } was added: a holds b and c
C17_Witness ==
    /\ last.op = "addTranslations" /\ last.arg = en /\ last.n = 10
    /\ HasKey(GetKey(LocaleValue(heap, en), <<"a">>).ents, <<"b">>)
    /\ HasKey(GetKey(LocaleValue(heap, en), <<"a">>).ents, <<"c">>)

\* keys and locales passed to exists
ExistsKeys == { <<"a",".","b">>, <<"a">>, <<"g">>, <<"a",".","c">>, <<"i","t","e","m","s",".","o","n","e">>, <<"a","r","r">>, <<"n","u","l">> }

NeverShrinks(h1, h2) ==
    /\ \A key \in ExistsKeys, locale \in MergeLocales :
          TranslatorExists(h1, normalizeFallbackLocales(options), trLocale, key, Some(locale))
          => TranslatorExists(h2, normalizeFallbackLocales(options), trLocale', key, Some(locale))
    /\ \A i \in 1..Len(getAvailableLocales(h1)) :
          SeqIncludes(getAvailableLocales(h2), getAvailableLocales(h1)[i])

\* C18: the translation tree never shrinks: once exists(key, locale) is
\* true for an explicit locale it stays true after every addTranslations
\* call and locale assignment, and availableLocales never loses a member.
C18_TreeNeverShrinks == [][NeverShrinks(heap, heap')]_vars

-----------------------------------------------------------------------------
(* Placeholders through t: one call whose text or default names variables  *)
(* the call supplies or does not supply.                                   *)

VarKeys == { <<"g">>, <<"i","t","e","m","s",".","o","t","h","e","r">>, <<"p">>, <<"a",".","b">>, <<"x">> }
VarDefaults == { NoStrs, OneStr(<<"D"," ","%","{","n","}"," ","%","{","c","o","u","n","t","}">>), OneStr(<<":","n"," ",":","c","o","u","n","t"," ",":","s","c","o","p","e">>) }

VarCalls ==
    { Call(k, TOpts(l, c, NoStrs, d, vs)) :
        k \in VarKeys, l \in { None, Some(ja) }, c \in { None, Some(2) },
        d \in VarDefaults, vs \in { <<>>, Bob } }

InitVars == InitWith({ Options("rails",   None, NoStrs,     FALSE),
                       Options("laravel", None, OneStr(ja), FALSE) })

NextVars == clock = 0 /\ \E c \in VarCalls : T(c.key, c.o, None)

SpecVars == InitVars /\ [][NextVars]_vars

RECURSIVE InterpolatedText(_, _, _)
\* the value t renders: what the first locale of the chain yields at the
\* key after the plural step, else the first default
TextOr(value, rest) == IF value.t # "undef" THEN value ELSE rest
InterpolatedText(chain, key, o) ==
    IF chain = <<>>
    THEN (IF o.default.kind # "none" /\ o.default.parts # <<>>
          THEN StrV(o.default.parts[1]) ELSE Undef)
    ELSE TextOr(PluralStep(heap, options, plLocale, LookupIn(heap, Head(chain), key), o),
                InterpolatedText(Tail(chain), key, o))

\* the text with the placeholders filled that the call's options supply
\* and every other placeholder left as it is
KeepsUnsupplied(text, o) ==
    text.t = "str"
    => /\ last.outcome = "ok"
       /\ last.result = interpolate(text.s, InterpolatorPrefix(options),
                                    InterpolatorSuffix(options), OptionValues(o))

\* C20: in the string t returns every placeholder whose name the call's
\* options do not supply is left untouched, count included when no count
\* is passed, for a found translation and for options.default alike.
C20_UnsuppliedPlaceholderKept ==
    last.op = "t"
    => KeepsUnsupplied(InterpolatedText(StatedChain(RequestedLocale(last.o)),
                                        LookedUpKey, last.o),
                       last.o)

-----------------------------------------------------------------------------
(* One t call with a count: plural values that resolve to a form in some   *)
(* locales of the chain and to none in others.                             *)

CountKeys == { <<"i","t","e","m","s">>, <<"a">>, <<"g">>, <<"x">> }
CountDefaults == { NoStrs, OneStr(<<"D"," ","%","{","c","o","u","n","t","}">>) }

CountCalls ==
    { Call(k, TOpts(l, Some(n), NoStrs, d, <<>>)) :
        k \in CountKeys, l \in { None, Some(ja), Some(fr) },
        n \in 0..MaxCount, d \in CountDefaults }

InitCount == InitWith({ Options("rails", None,     NoStrs,     FALSE),
                        Options("rails", Some(fr), OneStr(ja), TRUE),
                        Options("rails", Some(ja), NoStrs,     TRUE) })

NextCount == clock = 0 /\ \E c \in CountCalls, hret \in { None, Some(<<"H">>) } :
                            T(c.key, c.o, hret)

SpecCount == InitCount /\ [][NextCount]_vars

\* a key-based map without zero for 0, without the selected category and
\* without other
NoPluralForm(forms, category, count) ==
    /\ ~(count = 0 /\ HasKey(forms, <<"z","e","r","o">>))
    /\ ~HasKey(forms, category)
    /\ ~HasKey(forms, <<"o","t","h","e","r">>)

\* the value found at the key in a locale resolves to no plural form
Unresolved(value, count) ==
    /\ value.t = "obj"
    /\ PluralizerType(options) = "key"
    /\ NoPluralForm(heap[value.id].ents, getPluralCategory(plLocale, count), count)

\* the places of chain whose locale holds a value at key that resolves
Resolving(chain, key, count) ==
    { i \in 1..Len(chain) :
        /\ LookupIn(heap, chain[i], key).t # "undef"
        /\ ~Unresolved(LookupIn(heap, chain[i], key), count) }

ContinuesPastUnresolved(L, chain, resolving, key, o) ==
    IF resolving # {}
    THEN /\ last.outcome = "ok"
         /\ last.handlerCalls = <<>>
         /\ <<last.result>> = translateForLocale(heap, options, plLocale, key,
                                                 chain[MinOf(resolving)], o)
    ELSE MissResolution(L, key, o)

CountResolution(L, chain, key, o) ==
    ContinuesPastUnresolved(L, chain, Resolving(chain, key, o.count[1]), key, o)

\* C21: with a count, a locale whose value at the key resolves to no plural
\* form counts as not found: t goes on with the next locale of the chain,
\* then the default, the handler and the literal key.
C21_UnresolvedPluralContinues ==
    (last.op = "t" /\ last.o.count # None)
    => CountResolution(RequestedLocale(last.o), StatedChain(RequestedLocale(last.o)),
                       LookedUpKey, last.o)

UnresolvedBefore(chain, resolving, key, count) ==
    /\ resolving # {}
    /\ \E i \in 1..(MinOf(resolving) - 1) :
          Unresolved(LookupIn(heap, chain[i], key), count)

\* a call whose first chain locale holds a plural map without a form for
\* the count and whose result comes from a later locale of the chain
C21_Witness ==
    /\ last.op = "t" /\ last.o.count # None /\ last.outcome = "ok"
    /\ UnresolvedBefore(StatedChain(RequestedLocale(last.o)),
                        Resolving(StatedChain(RequestedLocale(last.o)), LookedUpKey,
                                  last.o.count[1]),
                        LookedUpKey, last.o.count[1])

-----------------------------------------------------------------------------
(* Parsing pipe texts: parsePipeSeparated applied to texts with groups,    *)
(* nested groups and pipes in every position.                              *)

MaxTextLen == 4
GroupChars == { "a", "|", "[", "{", "}", "]" }

\* the texts given to parsePipeSeparated
ParseTexts ==
    PipeTexts
    \cup UNION { [1..n -> GroupChars] : n \in 0..MaxTextLen }
    \cup { <<"[","a","{","b","}","|","c","]"," ","x","|","y">>, <<"{","0","}"," ","[","x","|","y","]","|","{","1","}"," ","{","a","|","b","}">>, <<"[","1",",","{","2","}","|","3","]"," ","a">> }

InitParse ==
    /\ el = NoElement
    /\ options = Options("laravel", None, NoStrs, FALSE)
    /\ currentLocale = determineInitialLocale(options)
    /\ trLocale = currentLocale
    /\ plLocale = currentLocale
    /\ heap = InitialHeap
    /\ changeListeners = <<>>
    /\ unsubs = {}
    /\ missingKeys = <<>>
    /\ clock = 0
    /\ last \in { [Idle EXCEPT !.op = "pipeText", !.arg = text] : text \in ParseTexts }

\* pluralizer.parsePipeSeparated(last.arg)
ParsePipeSeparated ==
    /\ last.op = "pipeText"
    /\ last' = [last EXCEPT !.op = "parsePipeSeparated",
                            !.out = parsePipeSeparated(last.arg)]
    /\ UNCHANGED <<el, options, currentLocale, trLocale, plLocale, heap,
                   changeListeners, unsubs, missingKeys, clock>>

NextParse == ParsePipeSeparated

SpecParse == InitParse /\ [][NextParse]_vars

RECURSIVE SplitOutsideGroups(_, _, _, _)
\* the segments of text from position i, split at the '|' characters at
\* nesting depth 0 of the [...] and {...} groups; current is the segment
\* being read
DepthAfter(char, depth) ==
    IF char \in {"[", "{"} THEN depth + 1
    ELSE IF char \in {"]", "}"} /\ depth > 0 THEN depth - 1
    ELSE depth
SplitOutsideGroups(text, i, current, depth) ==
    IF i > Len(text) THEN (IF current # <<>> THEN <<current>> ELSE <<>>)
    ELSE IF text[i] = "|" /\ depth = 0
    THEN <<current>> \o SplitOutsideGroups(text, i + 1, <<>>, depth)
    ELSE SplitOutsideGroups(text, i + 1, Append(current, text[i]),
                            DepthAfter(text[i], depth))

\* C22: parsePipeSeparated splits the text at exactly the '|' characters
\* outside every [...] and {...} group, tracking the nesting depth, and
\* classifies the trimmed segments in order: exact rule, range rule, the
\* singular/plural shorthand of a two-segment text, text-only rule.
C22_SplitsOutsideGroups ==
    last.op = "parsePipeSeparated"
    => last.out = ParseParts(SplitOutsideGroups(last.arg, 1, <<>>, 0))

-----------------------------------------------------------------------------
(* The locale through construction and assignments: options with blank,    *)
(* padded and refused locales, then any sequence of assignments.           *)

\* resolved options whose locale and defaultLocale are any z.string()
LocaleOptions ==
    { [Options("rails", locale, NoStrs, FALSE) EXCEPT !.defaultLocale = defaultLocale] :
        locale \in { None, Some(<<>>), Some(ja), Some(<<" ","j","a"," ">>), Some(<<"e","n","_","U","S">>), Some(<<" ">>) },
        defaultLocale \in { en, <<>>, <<" ","e","n">>, fr } }

InitLocale == InitWith(LocaleOptions)

NextLocale ==
    \/ \E newLocale \in LocaleArgs \cup { fr, <<"f","r"," ">> } : SetLocale(newLocale)
    \/ \E callback \in Callbacks : OnChange(callback)
    \/ \E callback \in Callbacks : Unsubscribe(callback)

SpecLocale == InitLocale /\ [][NextLocale]_vars

\* C24: after any sequence of locale assignments, accepted, rejected or
\* refused by Intl.PluralRules, the I18n's current locale, the Translator's
\* locale and the locale the Pluralizer is bound to are equal.
C24_LocalesAgree == currentLocale = trLocale /\ trLocale = plLocale

\* C25: in every reachable state, from construction with any accepted
\* options on and after any sequence of assignments, I18n.locale is a
\* non-empty string without leading or trailing white space.
C25_LocaleTrimmedNonEmpty ==
    /\ currentLocale # <<>>
    /\ currentLocale[1] \notin WhiteSpace
    /\ currentLocale[Len(currentLocale)] \notin WhiteSpace

\* a padded locale was assigned and the current locale is its trimmed value
C25_Witness ==
    /\ last.op = "setLocale" /\ last.arg = <<" ","j","a"," ">> /\ last.outcome = "ok"
    /\ currentLocale = ja

-----------------------------------------------------------------------------
(* Listeners that assign the locale: every subscribed listener is a        *)
(* closure that runs `i18n.locale = fixed` when it is notified.            *)

\* the depth of nested assignments the evaluation follows
MaxDepth == 4

\* the instance while an assignment runs: the three locales, the listeners
\* invoked so far with the locale each found, and how the assignment ended
Running(cur, tr, pl) ==
    [cur |-> cur, tr |-> tr, pl |-> pl, outcome |-> "ok", notified |-> <<>>,
     seen |-> <<>>]

RECURSIVE Assign(_, _, _, _, _)
RECURSIVE Notify(_, _, _, _, _)
\* notifyChange from the i-th listener on: listener() assigns fixed; what it
\* throws leaves the loop
NotifyNext(st, listeners, fixed, depth, i) ==
    IF st.outcome # "ok" THEN st ELSE Notify(st, listeners, fixed, depth, i + 1)
Notify(st, listeners, fixed, depth, i) ==
    IF i > Len(listeners) THEN st
    ELSE NotifyNext(Assign([st EXCEPT !.notified = Append(@, listeners[i]),
                                      !.seen = Append(@, st.cur)],
                           listeners, fixed, depth + 1, fixed),
                    listeners, fixed, depth, i)
\* `set locale(newLocale)` at nesting depth `depth`
AssignTrimmed(st, listeners, fixed, depth, trimmed) ==
    IF st.cur = trimmed THEN st
    ELSE IF ~IsValidTag(trimmed)
    THEN [st EXCEPT !.cur = trimmed, !.tr = trimmed, !.outcome = "throw"]
    ELSE Notify([st EXCEPT !.cur = trimmed, !.tr = trimmed, !.pl = trimmed],
                listeners, fixed, depth, 1)
Assign(st, listeners, fixed, depth, newLocale) ==
    IF depth > MaxDepth THEN [st EXCEPT !.outcome = "overflow"]
    ELSE IF RejectsLocale(newLocale) THEN [st EXCEPT !.outcome = "throw"]
    ELSE AssignTrimmed(st, listeners, fixed, depth, Trim(newLocale))

\* i18n.locale = newLocale while every listener assigns `fixed`
AssignedWith(newLocale, fixed, st) ==
    /\ st.outcome # "overflow"
    /\ currentLocale' = st.cur
    /\ trLocale' = st.tr
    /\ plLocale' = st.pl
    /\ last' = [Idle EXCEPT !.op = "setLocale", !.arg = newLocale, !.key = fixed,
                            !.outcome = st.outcome, !.notified = st.notified,
                            !.out = st.seen]
    /\ UNCHANGED <<el, options, heap, changeListeners, unsubs, missingKeys, clock>>
SetLocaleNotifying(newLocale, fixed) ==
    AssignedWith(newLocale, fixed,
                 Assign(Running(currentLocale, trLocale, plLocale), changeListeners,
                        fixed, 0, newLocale))

\* the locales the listeners assign
FixedLocales == { en, ja, <<" ","f","r"," ">>, <<"e","n","_","U","S">> }

NextReentrant ==
    \/ \E newLocale \in LocaleArgs, fixed \in FixedLocales :
          SetLocaleNotifying(newLocale, fixed)
    \/ \E callback \in Callbacks : OnChange(callback)
    \/ \E callback \in Callbacks : Unsubscribe(callback)

SpecReentrant == Init /\ [][NextReentrant]_vars

\* C23: an assignment that changes the locale while every listener assigns
\* one and the same fixed locale terminates with that locale as the current
\* locale, every listener having observed it.
C23_ReassigningListenersSettle ==
    [][ (last'.op = "setLocale" /\ ~IsBlank(last'.arg) /\ ~IsBlank(last'.key)
         /\ Trim(last'.arg) # currentLocale /\ changeListeners # <<>>)
        => /\ currentLocale' = Trim(last'.key)
           /\ \A i \in 1..Len(changeListeners) :
                 \E j \in 1..Len(last'.notified) :
                     /\ last'.notified[j] = changeListeners[i]
                     /\ last'.out[j] = Trim(last'.key) ]_vars

-----------------------------------------------------------------------------
(* What one addTranslations call leaves alone: callers who pass the same   *)
(* partial tree for several locales and merge into its subtrees later.     *)

\* MergeHeap and two more objects of the caller:
\*   17: { a: <18> }     18: { d: "D" }
FrameHeap ==
    [i \in 0..18 |->
       CASE i <= 16 -> MergeHeap[i]
         [] i = 17 -> Obj(<<Ent(<<"a">>, ObjV(18))>>)
         [] i = 18 -> Obj(<<Ent(<<"d">>, StrV(<<"D">>))>>)]

\* the partial trees and the locales passed to addTranslations
FramePartials == { 10, 12, 17 }
es == <<"e","s">>
FrameLocales == { en, de, es }

InitFrame ==
    /\ el = NoElement
    /\ options = Options("rails", None, NoStrs, FALSE)
    /\ currentLocale = determineInitialLocale(options)
    /\ trLocale = currentLocale
    /\ plLocale = currentLocale
    /\ heap = FrameHeap
    /\ changeListeners = <<>>
    /\ unsubs = {}
    /\ missingKeys = <<>>
    /\ clock = 0
    /\ last = Idle

NextFrame ==
    \E locale \in FrameLocales, partial \in FramePartials : AddTranslations(locale, partial)

SpecFrame == InitFrame /\ [][NextFrame]_vars

\* what a caller can see of a locale: absent, or its mapping by value
LocaleSeen(h, locale) ==
    IF LocaleTranslations(h, locale).t = "undef" THEN <<>>
    ELSE <<ValueOf(h, LocaleTranslations(h, locale))>>

\* h2 differs from h1 only in the mapping of locale
OnlyLocaleChanged(h1, h2, locale) ==
    /\ \A other \in FrameLocales \ {locale} : LocaleSeen(h2, other) = LocaleSeen(h1, other)
    /\ \A partial \in FramePartials : ValueOf(h2, ObjV(partial)) = ValueOf(h1, ObjV(partial))

\* C26: addTranslations(L, partial) changes only locale L's mapping: the
\* translations of every other locale and the caller's partial objects are
\* unchanged by the call, also when the same partial was passed for several
\* locales or the call merges into a subtree an earlier partial introduced.
C26_OnlyNamedLocaleChanges ==
    [][last'.op = "addTranslations" => OnlyLocaleChanged(heap, heap', last'.arg)]_vars

-----------------------------------------------------------------------------
(* The category selector behind t: locale assignments, accepted and        *)
(* refused, followed by one t call with a count and a requested locale.    *)

SelectorLocales == { ja, fr, ar, en, <<"e","n","_","U","S">> }
SelectorKeys == { <<"i","t","e","m","s">>, <<"a">>, <<"x">> }

SelectorCalls ==
    { Call(k, TOpts(l, Some(n), NoStrs, NoStrs, <<>>)) :
        k \in SelectorKeys, l \in { None, Some(ja), Some(fr) }, n \in 0..MaxCount }

InitSelector == InitWith({ Options("rails", None,     NoStrs,     FALSE),
                           Options("rails", Some(fr), OneStr(ja), TRUE) })

NextSelector ==
    \/ \E newLocale \in SelectorLocales : clock = 0 /\ SetLocale(newLocale)
    \/ \E c \in SelectorCalls : clock = 0 /\ T(c.key, c.o, None)

SpecSelector == InitSelector /\ [][NextSelector]_vars

\* the locale whose assignment last succeeded: the current locale, unless
\* its assignment failed after the value was stored
SelectorLocale == IF IsValidTag(currentLocale) THEN currentLocale ELSE plLocale

\* what t returns when every plural value of the chain of locale L is
\* resolved by the category selector of locale selector
WithSelector(selector, L, key, o) ==
    TranslateIn(heap, options, selector, o, last.hret, L, key)

AppliesSelector(stated) ==
    /\ last.outcome = stated.outcome
    /\ last.result = stated.result
    /\ last.handlerCalls = stated.handlerCalls

\* C27: the plural category applied by t(key, {count}) is the one the
\* category selector of the current locale (the last successfully assigned
\* locale) computes, irrespective of options.locale and of the chain locale
\* that supplied the plural value.
C27_CategoryOfCurrentLocale ==
    (last.op = "t" /\ last.o.count # None)
    => AppliesSelector(WithSelector(SelectorLocale, RequestedLocale(last.o),
                                    LookedUpKey, last.o))

\* t('items', {count: 1, locale: 'ja'}) under a current locale whose
\* selector says one: ja's selector says other, which ja's map lacks
C27_Witness ==
    /\ last.op = "t" /\ last.key = <<"i","t","e","m","s">>
    /\ last.o.count = Some(1) /\ last.o.locale = Some(ja)
    /\ getPluralCategory(SelectorLocale, 1) # getPluralCategory(ja, 1)
    /\ last.result = <<"i","c","h","i">>

-----------------------------------------------------------------------------
(* Converting the placeholder syntax of one text: Interpolator.convert     *)
(* between the rails and the laravel syntax, in both directions.           *)

SyntaxChars == { "%", "{", "n", "x", "}", ":" }

\* the texts given to Interpolator.convert
SyntaxTexts ==
    UNION { [1..k -> SyntaxChars] : k \in 0..MaxTextLen }
    \cup { <<"H","e","l","l","o"," ","%","{","n","a","m","e","}","!">>, <<"H","e","l","l","o"," ",":","n","a","m","e","!">>, <<"%","{","n","}","x">>, <<"%","{","n","}"," ","%","{","n","x","}">>, <<":","n"," ",":","n","x">>,
           <<":","n","x"," ",":","n">>, <<"%","{","a","}"," ","a","n","d"," ","%","{","b","}",","," ","%","{","a","}">>, <<":","a"," ","a","n","d"," ",":","b",","," ",":","a">> }

SyntaxOptions(mode) ==
    IF mode = "rails" THEN RailsInterpolationDefaults ELSE LaravelInterpolationDefaults

InitSyntax ==
    /\ el = NoElement
    /\ options = Options("rails", None, NoStrs, FALSE)
    /\ currentLocale = determineInitialLocale(options)
    /\ trLocale = currentLocale
    /\ plLocale = currentLocale
    /\ heap = InitialHeap
    /\ changeListeners = <<>>
    /\ unsubs = {}
    /\ missingKeys = <<>>
    /\ clock = 0
    /\ last \in { [Idle EXCEPT !.op = "text", !.arg = text] : text \in SyntaxTexts }

\* Interpolator.convert(last.arg, fromOptions, toOptions)
Convert(fromMode, toMode) ==
    /\ last.op = "text"
    /\ last' = [last EXCEPT !.op = "convert", !.fromMode = fromMode, !.toMode = toMode,
                            !.out = convert(last.arg, SyntaxOptions(fromMode),
                                            SyntaxOptions(toMode))]
    /\ UNCHANGED <<el, options, currentLocale, trLocale, plLocale, heap,
                   changeListeners, unsubs, missingKeys, clock>>

NextSyntax ==
    \/ Convert("rails", "laravel")
    \/ Convert("laravel", "rails")

SpecSyntax == InitSyntax /\ [][NextSyntax]_vars

\* the variables of text under the syntax of mode
VariablesUnder(mode, text) ==
    extractVariables(text, SyntaxOptions(mode).prefix, SyntaxOptions(mode).suffix)

\* C28: Interpolator.convert between the rails and the laravel syntax
\* preserves the variables of every text: the ordered list of names
\* extracted from the converted text under the target syntax equals the
\* list extracted from the original text under the source syntax.
C28_ConvertPreservesVariables ==
    last.op = "convert"
    => VariablesUnder(last.toMode, last.out) = VariablesUnder(last.fromMode, last.arg)

-----------------------------------------------------------------------------
(* Resolving a converted plural: a rails plural object resolved by         *)
(* resolveKeyBased, and its keyToPipe text resolved by resolvePipeBased.   *)

\* the texts of the forms: FormTexts, a placeholder-free count text and a
\* text of two lines
ResolveForms == FormTexts \cup { <<"m","a","n","y">>, <<"a","\n","b">> }

\* the plural objects with keys among zero, one, other
ResolveObjects ==
    { SelectSeq(<< Ent(<<"z","e","r","o">>, StrV(f[1])), Ent(<<"o","n","e">>, StrV(f[2])),
                   Ent(<<"o","t","h","e","r">>, StrV(f[3])) >>,
                LAMBDA e : e.k \in cats) :
        f \in [1..3 -> ResolveForms],
        cats \in (SUBSET { <<"z","e","r","o">>, <<"o","n","e">>, <<"o","t","h","e","r">> }) \ {{}} }

InitResolve ==
    /\ el = NoElement
    /\ options = Options("rails", None, NoStrs, FALSE)
    /\ currentLocale = determineInitialLocale(options)
    /\ trLocale = currentLocale
    /\ plLocale = currentLocale
    /\ heap = InitialHeap
    /\ changeListeners = <<>>
    /\ unsubs = {}
    /\ missingKeys = <<>>
    /\ clock = 0
    /\ last \in { [Idle EXCEPT !.op = "forms", !.ents = obj, !.n = count] :
                    obj \in ResolveObjects, count \in 0..MaxCount }

\* pluralizer.resolveKeyBased(last.ents, last.n) of a Pluralizer bound to
\* plLocale, and pluralizer.resolvePipeBased(Pluralizer.keyToPipe(last.ents), last.n)
ResolveConverted ==
    /\ last.op = "forms"
    /\ last' = [last EXCEPT !.op = "resolveConverted",
                            !.arg = keyToPipe(last.ents),
                            !.result = resolvePipeBased(keyToPipe(last.ents), last.n),
                            !.out = resolveKeyBased(plLocale, last.ents, last.n)]
    /\ UNCHANGED <<el, options, currentLocale, trLocale, plLocale, heap,
                   changeListeners, unsubs, missingKeys, clock>>

NextResolve == ResolveConverted

SpecResolve == InitResolve /\ [][NextResolve]_vars

\* a form text free of '|', brackets and surrounding whitespace
CleanForm(text) ==
    /\ \A i \in 1..Len(text) : text[i] \notin { "|", "[", "]", "{", "}" }
    /\ Trim(text) = text

\* a plural object that contains other and whose form texts are clean
CleanWithOther(obj) ==
    /\ HasKey(obj, <<"o","t","h","e","r">>)
    /\ \A i \in 1..Len(obj) : CleanForm(obj[i].v.s)

\* C29: plural conversion preserves resolution: for a rails plural object
\* with keys among zero, one, other that contains other, with form texts
\* free of '|', brackets and surrounding whitespace, and a non-negative
\* count, resolvePipeBased(keyToPipe(obj), count) returns the text
\* resolveKeyBased(obj, count) returns under the English selector.
C29_ConversionPreservesResolution ==
    (last.op = "resolveConverted" /\ CleanWithOther(last.ents))
    => last.out = StrV(last.result)

-----------------------------------------------------------------------------
(* The v-t directive of the Vue package: one element through mounted,      *)
(* updated and beforeUnmount, while the I18n it reads changes its locale   *)
(* and receives translations.  Vue hands every hook the binding of the     *)
(* vnode being patched, a new object for every render.                     *)

\* the closure mounted passes to i18n.onChange
ElementListener == "updateElement"

DirectiveKeys == { <<"g">>, <<"s">>, <<"x">> }
DirectiveLocales == { ja, fr, en, <<"e","n","_","U","S">> }
DirectivePartials == { 10 }

InitDirective == InitWith({ Options("rails", None, NoStrs, FALSE),
                            Options("rails", Some(ja), OneStr(en), FALSE) })

\* i18n.t(key) on heap h of an I18n whose Translator has locale tr and whose
\* Pluralizer is bound to pl
Translation(h, tr, pl, key) == translate(h, options, tr, pl, key, NoOpts, None).result

\* the missingKeys map after the t of updateElement returned result
TrackOn(h, map, result, key, locale) ==
    IF result = key
       /\ ~TranslatorExists(h, normalizeFallbackLocales(options), locale, key, Some(locale))
       /\ ~MapHas(map, MapKeyOf(locale, key))
    THEN Append(map, [mapKey |-> MapKeyOf(locale, key), key |-> key,
                      locale |-> locale, timestamp |-> clock])
    ELSE map

\* updateElement(el, binding, i18n) without the html modifier: the element
\* afterwards, binding.value being key
updateElement(e, h, tr, pl, key) == [e EXCEPT !.content = Translation(h, tr, pl, key)]

\* notifyChange as the element sees it: its listener, when subscribed, calls
\* updateElement with the binding that mounted received
Subscribed == SeqIncludes(changeListeners, ElementListener)
ElementNotified(e, h, tr, pl) ==
    IF Subscribed THEN updateElement(e, h, tr, pl, e.bound) ELSE e
MapNotified(e, h, map, cur) ==
    IF Subscribed THEN TrackOn(h, map, e.content, e.bound, cur) ELSE map

\* Every hook and every call of the I18n takes one tick of the clock, and the
\* element is followed for MaxClock ticks.

\* vT.mounted(el, binding), binding.value being key
Mounted(key) ==
    /\ el.phase = "created"
    /\ clock < MaxClock
    /\ clock' = clock + 1
    /\ el' = updateElement([el EXCEPT !.phase = "mounted", !.value = key, !.bound = key],
                           heap, trLocale, plLocale, key)
    /\ missingKeys' = TrackOn(heap, missingKeys, el'.content, key, currentLocale)
    /\ changeListeners' = Append(changeListeners, ElementListener)
    /\ last' = [Idle EXCEPT !.op = "mounted", !.key = key]
    /\ UNCHANGED <<options, currentLocale, trLocale, plLocale, heap, unsubs>>

\* vT.updated(el, binding), binding.value being key
Updated(key) ==
    /\ el.phase = "mounted"
    /\ clock < MaxClock
    /\ clock' = clock + 1
    /\ el' = updateElement([el EXCEPT !.value = key], heap, trLocale, plLocale, key)
    /\ missingKeys' = TrackOn(heap, missingKeys, el'.content, key, currentLocale)
    /\ last' = [Idle EXCEPT !.op = "updated", !.key = key]
    /\ UNCHANGED <<options, currentLocale, trLocale, plLocale, heap, changeListeners,
                   unsubs>>

\* vT.beforeUnmount(el)
BeforeUnmount ==
    /\ el.phase = "mounted"
    /\ clock < MaxClock
    /\ clock' = clock + 1
    /\ el' = [el EXCEPT !.phase = "unmounted"]
    /\ changeListeners' = SeqWithout(changeListeners, ElementListener)
    /\ last' = [Idle EXCEPT !.op = "beforeUnmount"]
    /\ UNCHANGED <<options, currentLocale, trLocale, plLocale, heap, unsubs,
                   missingKeys>>

\* `set locale(newLocale)` of an I18n with the element's listener: the
\* assignment stores the trimmed value, rebinds the Pluralizer (which
\* throws on a tag Intl.PluralRules refuses) and then notifies
Stores(newLocale) == ~RejectsLocale(newLocale) /\ currentLocale # Trim(newLocale)
Notifies(newLocale) == Stores(newLocale) /\ IsValidTag(Trim(newLocale))
ElementSetLocale(newLocale) ==
    /\ clock < MaxClock
    /\ clock' = clock + 1
    /\ currentLocale' = IF Stores(newLocale) THEN Trim(newLocale) ELSE currentLocale
    /\ trLocale' = currentLocale'
    /\ plLocale' = IF Notifies(newLocale) THEN Trim(newLocale) ELSE plLocale
    /\ el' = IF Notifies(newLocale)
             THEN ElementNotified(el, heap, Trim(newLocale), Trim(newLocale)) ELSE el
    /\ missingKeys' = IF Notifies(newLocale)
                      THEN MapNotified(el', heap, missingKeys, Trim(newLocale))
                      ELSE missingKeys
    /\ last' = [Idle EXCEPT !.op = "setLocale", !.arg = newLocale,
                            !.outcome = IF RejectsLocale(newLocale)
                                           \/ (Stores(newLocale) /\ ~Notifies(newLocale))
                                        THEN "throw" ELSE "ok"]
    /\ UNCHANGED <<options, heap, changeListeners, unsubs>>

\* I18n.addTranslations(locale, translations) of an I18n with the element's
\* listener: the merge, then notifyChange
ElementAddTranslations(locale, partial) ==
    /\ clock < MaxClock
    /\ clock' = clock + 1
    /\ heap' = addTranslations(heap, locale, partial)
    /\ el' = ElementNotified(el, heap', trLocale, plLocale)
    /\ missingKeys' = MapNotified(el', heap', missingKeys, currentLocale)
    /\ last' = [Idle EXCEPT !.op = "addTranslations", !.arg = locale, !.n = partial]
    /\ UNCHANGED <<options, currentLocale, trLocale, plLocale, changeListeners,
                   unsubs>>

NextDirective ==
    \/ \E key \in DirectiveKeys : Mounted(key)
    \/ \E key \in DirectiveKeys : Updated(key)
    \/ BeforeUnmount
    \/ \E newLocale \in DirectiveLocales : ElementSetLocale(newLocale)
    \/ \E locale \in { en, ja }, partial \in DirectivePartials :
          ElementAddTranslations(locale, partial)

SpecDirective == InitDirective /\ [][NextDirective]_vars

\* a mounted element shows i18n.t(binding value) of the present I18n
ContentIsCurrent ==
    el.phase = "mounted" => el.content = Translation(heap, trLocale, plLocale, el.value)

\* an unmounted element has no listener left and its content stays
UnmountedIsDetached == el.phase = "unmounted" => ~Subscribed
UnmountedKeepsContent == el.phase = "unmounted" => el'.content = el.content

\* C30: after any interleaving of binding-value updates, locale changes
\* and addTranslations calls, the content of an element carrying v-t
\* equals i18n.t(current binding value) under the current locale; after
\* beforeUnmount the element's listener is unsubscribed and no later change
\* updates the element.
C30_ElementShowsCurrentTranslation ==
    /\ [](ContentIsCurrent /\ UnmountedIsDetached)
    /\ [][UnmountedKeepsContent]_vars

====
